---- MODULE Spec2Model ----
(***************************************************************************)
(* Platypus: the "handler-logic" scheduler component (src/unnamed/part_000) *)
(* and the CollisionGroup component (src/unnamed/part_001).                 *)
(*                                                                          *)
(* One action per message handler.  A handler runs synchronously to its end *)
(* before the next message is handled, so each action is the whole handler. *)
(***************************************************************************)
EXTENDS Integers, Sequences, FiniteSets, TLC

(***************************************************************************)
(* Bounds of the model.                                                     *)
(***************************************************************************)
\* longest registered-entity list the scheduler is driven to
MaxEntities == 2
\* latest step (the loop variable i of tick) from which a dispatch may start failing
MaxFailStep == 1
\* number of tick calls that the totals of the accounting specification cover
MaxTicks == 3
\* longest solidEntities list a collision group is driven to
MaxMembers == 3
\* the fullscreen requests, and the change events, the browser holds at a time
MaxPending == 2
\* the relocateEntity calls made on the groups
MaxPasses == 1
\* the calls a method may nest before the stack is exhausted
MaxDepth == 3

(***************************************************************************)
(* Program constants.                                                       *)
(***************************************************************************)
\* the default step length in milliseconds
DefaultStepLength == 15
\* this.maximumStepsPerTick = 10
maximumStepsPerTick == 10

(***************************************************************************)
(* JavaScript values.                                                       *)
(***************************************************************************)
\* A number is kept as a fraction in lowest terms [n, d] with d > 0, so that the
\* result of a division is exact; d = 0 holds the non-finite results of a
\* division by zero: n = 1 is Infinity, n = -1 is -Infinity, n = 0 is NaN.
Num(i) == [t |-> "number", n |-> i, d |-> 1]
Undefined == [t |-> "undefined", n |-> 0, d |-> 1]

typeof(v) == v.t

Abs(n) == IF n < 0 THEN -n ELSE n

RECURSIVE GCD(_, _)
GCD(a, b) == IF b = 0 THEN a ELSE GCD(b, a % b)

\* a / b for integers a and b >= 0 (b = 0 gives Infinity or NaN, never an error)
JSDiv(a, b) ==
    IF b = 0
    THEN [t |-> "number", n |-> IF a > 0 THEN 1 ELSE IF a < 0 THEN -1 ELSE 0, d |-> 0]
    ELSE LET g == GCD(Abs(a), b) IN [t |-> "number", n |-> a \div g, d |-> b \div g]

IsFinite(r) == r.t = "number" /\ r.d # 0

\* a <= b; a comparison with undefined or NaN is false
NumLeq(a, b) == IsFinite(a) /\ IsFinite(b) /\ a.n * b.d <= b.n * a.d
NumAdd(a, b) == JSDiv(a.n * b.d + b.n * a.d, a.d * b.d)
NumSub(a, b) == JSDiv(a.n * b.d - b.n * a.d, a.d * b.d)

NaN == [t |-> "number", n |-> 0, d |-> 0]

\* the number an arithmetic operator takes its operand as
ToNumber(v) == IF v.t = "undefined" THEN NaN ELSE v

\* a + b and a - b on operands that may be undefined
Plus(a, b) == NumAdd(ToNumber(a), ToNumber(b))
Minus(a, b) == NumSub(ToNumber(a), ToNumber(b))

\* a * b on operands that may be undefined
Times(a, b) ==
    LET l == ToNumber(a)
        r == ToNumber(b)
    IN  JSDiv(l.n * r.n, l.d * r.d)

\* a / k for a whole number k > 0
Over(a, k) == LET l == ToNumber(a) IN JSDiv(l.n, l.d * k)

\* object.name: the value of a property, undefined when the object has none
Field(object, name) == IF name \in DOMAIN object THEN object[name] ELSE Undefined

\* !v: undefined, 0 and NaN are falsy
Falsy(v) == v.t = "undefined" \/ v.n = 0

\* a || b
OrElse(a, b) == IF Falsy(a) THEN b ELSE a

\* Math.min on step counts
Min(a, b) == IF a < b THEN a ELSE b

(***************************************************************************)
(* Entities (the external collaborator the components are attached to).     *)
(***************************************************************************)
\* the children of the scheduler's owner
Children == {"hero", "hud", "crate"}

\* the entities that take part in collisions; platform and box own a
\* CollisionGroup component
Bodies == {"platform", "box", "passenger", "ghost", "anvil", "cloud"}
Groups == {"platform", "box"}

\* an entity that a listener creates while the game runs
Spawned == {"spark"}

Entity == Children \cup Spawned \cup Bodies

\* entity.getMessageIds(): the messages an entity has listeners for
getMessageIds(e) ==
    CASE e = "hero"  -> <<"handle-logic">>
      [] e = "hud"   -> <<"tick", "handle-logic", "handle-logic">>
      [] e = "spark" -> <<"handle-logic">>
      [] OTHER       -> <<"hit-by", "handle-render">>

\* the scheduler's owner and the scene that receives the telemetry
Owner == "layer"
CurrentScene == "scene"

\* positions an entity may be moved to between two messages
Positions == { <<5, 5>>, <<-2, 10>>, <<-3, 5>>, <<5, 11>> }

\* the definitions the component is constructed with
Definitions ==
    { [stepLength |-> Undefined, buffer |-> Undefined],
      [stepLength |-> Undefined, buffer |-> Num(0)],
      [stepLength |-> Num(10), buffer |-> Num(2)] }

\* the definition LogicRotationalMovement is initialized with
MovementDefinition == [speed |-> Undefined, degree |-> Undefined, angle |-> Undefined]

\* resp.deltaT of the tick messages
DeltaTs == {1, 15, 46, 200}

\* the camera-update messages
CameraMessages ==
    { [viewportLeft |-> 0, viewportTop |-> 0, viewportWidth |-> 8, viewportHeight |-> 8],
      [viewportLeft |-> 4, viewportTop |-> 0, viewportWidth |-> 6, viewportHeight |-> 8] }

\* the keys and the values of the state maps
StateKeys == {"moving", "jumping", "facing"}

StateValues == {"true", "false", "undefined"}

\* the classes of the game container before the Fullscreen component acts
ContainerClasses == <<"game">>

VARIABLES
    definition,     \* the definition handed to the constructor
    entities,       \* this.entities: the registered entities, in order
    stepLength,     \* this.stepLength
    leftoverTime,   \* this.leftoverTime
    camera,         \* this.camera
    message,        \* this.message (its camera field is the camera object itself)
    timeElapsed,    \* this.timeElapsed.name (the time field is a wall-clock reading)
    bufferDefaults, \* how often camera-update has assigned the default buffer
    x, y,           \* entity.x, entity.y
    log,            \* the messages triggered by the most recent handler call
    pre,            \* the component's state when the most recent handler call started
    solidEntities,  \* this.solidEntities of each CollisionGroup, by owner
    aabb, prevAABB, \* this.aabb and this.prevAABB of each CollisionGroup, by owner
    ticks, totalT, totalSteps, totalCycles, totalDropped,  \* sums over tick calls
    previousX, previousY,   \* entity.previousX, entity.previousY
    saveDX, saveDY,         \* entity.saveDX, entity.saveDY
    saveOX, saveOY,         \* entity.saveOX, entity.saveOY
    passes,                 \* how many relocateEntity calls have been made
    state,                  \* the keys and values of a StateMap
    enabled,                \* fullscreen.js: enabled
    className,              \* fullscreen.js: element.className, as its list of classes
    fullscreenElement,      \* the browser: whether document.fullscreenElement is set
    requests,               \* the browser: fullscreen requests and exits not yet carried out
    changeEvents,           \* the browser: fullscreen-change events not yet delivered
    moving, magnitude,      \* LogicRotationalMovement: this.moving, this.magnitude
    turningRight, turningLeft,  \* this.turningRight, this.turningLeft
    angle,                  \* this.angle
    rotation,               \* this.owner.rotation
    ownerState              \* this.owner.state: moving, turningLeft, turningRight

schedVars == <<definition, entities, stepLength, leftoverTime, camera, message,
               timeElapsed, bufferDefaults>>
totals == <<ticks, totalT, totalSteps, totalCycles, totalDropped>>
groupVars == <<solidEntities, aabb, prevAABB>>
relocationVars == <<previousX, previousY, saveDX, saveDY, saveOX, saveOY, passes>>
stateMapVars == <<state>>
fullscreenVars == <<enabled, className, fullscreenElement, requests, changeEvents>>
controlVars == <<moving, magnitude, turningRight, turningLeft>>
movementVars == <<controlVars, angle, rotation, ownerState>>
otherVars == <<relocationVars, stateMapVars, fullscreenVars, movementVars>>
vars == <<definition, entities, stepLength, leftoverTime, camera, message,
          timeElapsed, bufferDefaults, x, y, log, pre, ticks, totalT, totalSteps,
          totalCycles, totalDropped, solidEntities, aabb, prevAABB,
          previousX, previousY, saveDX, saveDY, saveOX, saveOY, passes, state,
          enabled, className, fullscreenElement, requests, changeEvents,
          moving, magnitude, turningRight, turningLeft, angle, rotation, ownerState>>

\* no handler call is on record
Idle == [op |-> "idle"]

\* the state a handler call starts from, with the message it handles
Snapshot(op, arg) ==
    [op |-> op, arg |-> arg, entities |-> entities, leftoverTime |-> leftoverTime,
     camera |-> camera, message |-> message, timeElapsed |-> timeElapsed,
     bufferDefaults |-> bufferDefaults, x |-> x, y |-> y]

(***************************************************************************)
(* AABB: the bounding box value the CollisionGroup aggregates (its class is *)
(* not part of the sources at hand).  A box is empty after reset(), and     *)
(* include() grows it to enclose another box.                               *)
(***************************************************************************)
EmptyAABB == [empty |-> TRUE, left |-> 0, right |-> 0, top |-> 0, bottom |-> 0]

Box(l, r, t, b) == [empty |-> FALSE, left |-> l, right |-> r, top |-> t, bottom |-> b]

Max(a, b) == IF a > b THEN a ELSE b

Include(box, other) ==
    IF other.empty THEN box
    ELSE IF box.empty THEN other
    ELSE Box(Min(box.left, other.left), Max(box.right, other.right),
             Min(box.top, other.top), Max(box.bottom, other.bottom))

(***************************************************************************)
(* The collision data of the entities (set by their collision components).  *)
(***************************************************************************)
\* entity.collisionTypes is undefined for an entity without collision component
HasCollisionTypes(e) == e \in Bodies \ {"cloud"}

collisionTypes(e) ==
    CASE e = "platform"  -> <<"platform">>
      [] e = "box"       -> <<"crate", "pushable">>
      [] e = "passenger" -> <<"character", "pushable">>
      [] e = "ghost"     -> <<"ghost">>
      [] e = "anvil"     -> <<"heavy">>
      [] OTHER           -> << >>

\* entity.solidCollisions[type]: the collision types this type is stopped by
solidCollisions(e, type) ==
    CASE type = "platform"  -> <<"wall">>
      [] type = "crate"     -> <<"wall", "platform">>
      [] type = "pushable"  -> IF e = "passenger" THEN << >> ELSE <<"wall">>
      [] type = "character" -> <<"wall", "platform", "crate">>
      [] type = "heavy"     -> <<"wall">>
      [] OTHER              -> << >>

immobile(e) == e = "anvil"

\* where the entities are when the components are constructed
StartPosition(e) ==
    CASE e = "platform"  -> <<0, 0>>
      [] e = "box"       -> <<1, -4>>
      [] e = "passenger" -> <<2, -8>>
      [] OTHER           -> <<5, 5>>

\* where the entities were a frame before the components are constructed: the
\* passenger has just moved, the others stand still
StartPrevious(e) ==
    CASE e = "passenger" -> <<2, -7>>
      [] OTHER           -> StartPosition(e)

\* entity.getAABB() of the entity's own collision component: a box of
\* width and height 4 around the entity's position
EntityAABB(e) == Box(x[e].n - 2, x[e].n + 2, y[e].n - 2, y[e].n + 2)

\* half the width and height of the shape an entity has for a collision type
TypeExtent(type) == IF type = "pushable" THEN 1 ELSE 2

\* entity.getAABB(type) and entity.getPreviousAABB(type) of the entity's own
\* collision component, for the entity at (px, py): the box of its shape of
\* that type, and nothing to include when the entity has no such type
EntityTypeAABB(e, type, px, py) ==
    IF \E i \in 1..Len(collisionTypes(e)) : collisionTypes(e)[i] = type
    THEN Box(px - TypeExtent(type), px + TypeExtent(type),
             py - TypeExtent(type), py + TypeExtent(type))
    ELSE EmptyAABB

\* a call without collision type
NoType == ""

\* the collision types the queries are made with
QueryTypes == {NoType, "crate", "pushable", "character"}

(***************************************************************************)
(* CollisionGroup: constructor                                              *)
(***************************************************************************)
\* lines 45-46: new platypus.AABB(this.owner.x, this.owner.y)
ConstructedAABB(g) ==
    Box(StartPosition(g)[1], StartPosition(g)[1], StartPosition(g)[2], StartPosition(g)[2])

(***************************************************************************)
(* handler-logic: constructor                                               *)
(***************************************************************************)
Constructor(def) ==
    /\ definition = def
    /\ entities = << >>
    /\ stepLength = OrElse(def.stepLength, Num(DefaultStepLength)).n
    /\ leftoverTime = 0
    /\ camera = [left |-> 0, top |-> 0, width |-> 0, height |-> 0,
                 buffer |-> OrElse(def.buffer, Num(0))]
    /\ message = [deltaT |-> OrElse(def.stepLength, Num(DefaultStepLength))]
    /\ timeElapsed = "Logic"
    /\ bufferDefaults = 0

\* the hud has no position
Init_x(e) == IF e = "hud" THEN Undefined ELSE Num(StartPosition(e)[1])
Init_y(e) == IF e = "hud" THEN Undefined ELSE Num(StartPosition(e)[2])

Init ==
    /\ \E def \in Definitions : Constructor(def)
    /\ x = [e \in Entity |-> Init_x(e)]
    /\ y = [e \in Entity |-> Init_y(e)]
    /\ solidEntities = [g \in Groups |-> << >>]
    /\ aabb = [g \in Groups |-> ConstructedAABB(g)]
    /\ prevAABB = [g \in Groups |-> ConstructedAABB(g)]
    /\ log = << >>
    /\ pre = Idle
    /\ ticks = 0 /\ totalT = 0 /\ totalSteps = 0 /\ totalCycles = 0
    /\ totalDropped = 0
    /\ previousX = [e \in Entity |-> IF e = "hud" THEN Undefined
                                    ELSE Num(StartPrevious(e)[1])]
    /\ previousY = [e \in Entity |-> IF e = "hud" THEN Undefined
                                    ELSE Num(StartPrevious(e)[2])]
    /\ saveDX = [e \in Entity |-> Undefined]
    /\ saveDY = [e \in Entity |-> Undefined]
    /\ saveOX = [e \in Entity |-> Undefined]
    /\ saveOY = [e \in Entity |-> Undefined]
    /\ passes = 0
    /\ state = [k \in StateKeys |-> "undefined"]
    /\ enabled = FALSE
    /\ className = ContainerClasses
    /\ fullscreenElement = FALSE
    /\ requests = << >>
    /\ changeEvents = 0
    /\ moving = FALSE
    /\ magnitude = Num(0)
    /\ turningRight = FALSE
    /\ turningLeft = FALSE
    /\ angle = OrElse(MovementDefinition.angle, Num(0))
    /\ rotation = Undefined
    /\ ownerState = [k \in {"moving", "turningLeft", "turningRight"} |-> FALSE]

(***************************************************************************)
(* handler-logic: child-entity-added                                        *)
(***************************************************************************)
\* the loop over messageIds with its break: how many times entity is pushed
RECURSIVE PushCount(_, _)
PushCount(messageIds, i) ==
    IF i > Len(messageIds) THEN 0
    ELSE IF messageIds[i] = "handle-logic" THEN 1
    ELSE PushCount(messageIds, i + 1)

\* the entity put in front of the list instead: entities.unshift(entity)
RECURSIVE PushFront(_, _, _)
PushFront(list, e, n) ==
    IF n = 0 THEN list ELSE PushFront(<< e >> \o list, e, n - 1)

RECURSIVE Push(_, _, _)
Push(list, e, n) == IF n = 0 THEN list ELSE Push(Append(list, e), e, n - 1)

Registered(list, entity) == Push(list, entity, PushCount(getMessageIds(entity), 1))

ChildEntityAdded(entity) ==
    /\ pre = Idle
    /\ Len(Registered(entities, entity)) <= MaxEntities
    /\ pre' = Snapshot("child-entity-added", entity)
    /\ entities' = Registered(entities, entity)
    /\ log' = << >>
    /\ UNCHANGED <<definition, stepLength, leftoverTime, camera, message,
                   timeElapsed, bufferDefaults, x, y, totals, groupVars, otherVars>>

(***************************************************************************)
(* handler-logic: camera-update                                             *)
(***************************************************************************)
\* lines 50-52: the default buffer
DefaultedBuffer(buffer, width) == IF Falsy(buffer) THEN JSDiv(width, 4) ELSE buffer

UpdatedCamera(cam, msg) ==
    [left   |-> msg.viewportLeft,
     top    |-> msg.viewportTop,
     width  |-> msg.viewportWidth,
     height |-> msg.viewportHeight,
     buffer |-> DefaultedBuffer(cam.buffer, msg.viewportWidth)]

CameraUpdate(msg) ==
    /\ pre = Idle
    /\ pre' = Snapshot("camera-update", msg)
    /\ camera' = UpdatedCamera(camera, msg)
    /\ bufferDefaults' = IF Falsy(camera.buffer) THEN bufferDefaults + 1
                                                 ELSE bufferDefaults
    /\ log' = << >>
    /\ UNCHANGED <<definition, entities, stepLength, leftoverTime, message,
                   timeElapsed, x, y, totals, groupVars, otherVars>>

(***************************************************************************)
(* handler-logic: tick / logic                                              *)
(***************************************************************************)
\* the step count rounded to the nearest whole number instead of down
CyclesRounded(accumulated, step) == (2 * accumulated + step) \div (2 * step)

\* line 60
Cycles(accumulated, step) == accumulated \div step

\* the delta computed from the step count after the clamp
DeltaOfClampedCycles(accumulated, cycles) ==
    JSDiv(accumulated, Min(cycles, maximumStepsPerTick))

\* line 63
AdjustedDelta(accumulated, cycles) == JSDiv(accumulated, cycles)

\* the remainder carried forward instead (the line that is commented out)
LeftoverCarried(accumulated, cycles, step) == accumulated - cycles * step

\* lines 64-65
LeftoverAfter(accumulated, cycles, step) == 0

\* the step count left as computed
UnclampedCycles(cycles) == cycles

\* line 68
ClampedCycles(cycles) == Min(cycles, maximumStepsPerTick)

\* the window without its boundary
InOpenWindow(childX, childY, cam) ==
    \/ typeof(childX) = "undefined"
    \/ /\ ~NumLeq(childX, NumSub(Num(cam.left), cam.buffer))
       /\ ~NumLeq(NumAdd(Num(cam.left + cam.width), cam.buffer), childX)
       /\ ~NumLeq(childY, NumSub(Num(cam.top), cam.buffer))
       /\ ~NumLeq(NumAdd(Num(cam.top + cam.height), cam.buffer), childY)

\* line 74: the test that lets a child receive handle-logic
InWindow(childX, childY, cam) ==
    \/ typeof(childX) = "undefined"
    \/ /\ NumLeq(NumSub(Num(cam.left), cam.buffer), childX)
       /\ NumLeq(childX, NumAdd(Num(cam.left + cam.width), cam.buffer))
       /\ NumLeq(NumSub(Num(cam.top), cam.buffer), childY)
       /\ NumLeq(childY, NumAdd(Num(cam.top + cam.height), cam.buffer))

\* the messages the handler triggers, as they are recorded in log
HandleLogicEvent(child, i, msg, result) ==
    [type |-> "handle-logic", target |-> child, step |-> i, deltaT |-> msg.deltaT,
     name |-> "", result |-> result]
TimeElapsedEvent(i, name) ==
    [type |-> "time-elapsed", target |-> CurrentScene, step |-> i, deltaT |-> Undefined,
     name |-> name, result |-> 1]
\* a child-entity-added that a handle-logic listener sends to the scheduler
\* while its own dispatch is running
ChildEntityAddedEvent(entity, i) ==
    [type |-> "child-entity-added", target |-> Owner, step |-> i, deltaT |-> Undefined,
     name |-> entity, result |-> 1]
CheckCollisionGroupEvent(i, msg) ==
    [type |-> "check-collision-group", target |-> Owner, step |-> i,
     deltaT |-> msg.deltaT, name |-> "", result |-> 1]

\* child.trigger('handle-logic', message): the number of listeners that ran.
\* The entities in failing have lost their listeners from step failFrom on.
Trigger(child, i, failing, failFrom) ==
    IF child \in failing /\ i >= failFrom THEN 0 ELSE 1

\* a removal that is off by one: entities.splice(x + 1, 1)
SpliceAfter(list, idx) == SubSeq(list, 1, idx) \o SubSeq(list, idx + 2, Len(list))

\* entities.splice(idx, 1), with idx counted from 1
Splice(list, idx) == SubSeq(list, 1, idx - 1) \o SubSeq(list, idx + 1, Len(list))

(***************************************************************************)
(* LogicRotationalMovement: initialize, handle-logic                        *)
(***************************************************************************)
\* lines 54 and 56
speed == OrElse(MovementDefinition.speed, JSDiv(3, 10))
degree == OrElse(MovementDefinition.degree, Num(1))

\* Math.cos and Math.sin at the angles the component is at when the only
\* handle-logic messages are the scheduler's: 0 and NaN
Cos(a) == IF a = Num(0) THEN Num(1) ELSE NaN
Sin(a) == IF a = Num(0) THEN Num(0) ELSE NaN

\* lines 42-47
polarToCartesianX(m, a) == Times(m, Cos(a))
polarToCartesianY(m, a) == Times(m, Sin(a))

\* lines 77, 81, 89 and 90: the length of the tick the handler reads
DeltaRead(resp) == Field(resp, "delta")

\* what the handler did, as it is recorded in log
OwnerMovedEvent(child, i, delta, from, to) ==
    [type |-> "owner-moved", target |-> child, step |-> i, deltaT |-> delta,
     name |-> "", result |-> 1, from |-> from, to |-> to]

\* lines 71-99; st holds x, y, angle, rotation and ownerState
HandleLogic(st, owner, i, resp) ==
    LET delta  == DeltaRead(resp)
        right  == IF turningRight
                  THEN Plus(st.angle, Over(Times(degree, delta), 15))
                  ELSE st.angle
        turned == IF turningLeft
                  THEN Minus(right, Over(Times(degree, delta), 15))
                  ELSE right
        vX     == IF moving THEN polarToCartesianX(magnitude, turned) ELSE Num(0)
        vY     == IF moving THEN polarToCartesianY(magnitude, turned) ELSE Num(0)
        toX    == Plus(st.x[owner], Times(vX, delta))
        toY    == Plus(st.y[owner], Times(vY, delta))
    IN  [st EXCEPT !.angle = turned,
                   !.x[owner] = toX,
                   !.y[owner] = toY,
                   !.ownerState = [moving |-> moving, turningLeft |-> turningLeft,
                                   turningRight |-> turningRight],
                   !.rotation = turned,
                   !.log = Append(@, OwnerMovedEvent(owner, i, delta,
                                                     [x |-> st.x[owner], y |-> st.y[owner]],
                                                     [x |-> toX, y |-> toY]))]

\* the entity whose handle-logic listener is the component's, if any
NoMover == "nobody"
Listens(child, result, env) == result # 0 /\ child = env.mover

\* the pass taken from the first index up, the length read again at each
\* turn: with idx counting the entries left, the entry visited is
\* Len(st.entities) - idx + 1, and a removal shortens what is left by two
RECURSIVE LogicPassForward(_, _, _, _, _)
LogicPassForward(st, idx, i, msg, env) ==
    IF idx < 1 THEN st
    ELSE LET at    == Len(st.entities) - idx + 1
             child == st.entities[at]
         IN
         IF InWindow(st.x[child], st.y[child], env.camera)
         THEN LET result == Trigger(child, i, env.failing, env.failFrom)
              IN  LogicPassForward([st EXCEPT
                                !.entities = IF result = 0 THEN Splice(@, at) ELSE @,
                                !.log = Append(@, HandleLogicEvent(child, i, msg, result))],
                            IF result = 0 THEN idx - 2 ELSE idx - 1, i, msg, env)
         ELSE LogicPassForward(st, idx - 1, i, msg, env)

\* what a listener of handle-logic does to the scheduler while it runs: the
\* listeners of env.spawn.by send child-entity-added for env.spawn.entity in
\* step env.spawn.step (lines 32-43 run inside the trigger of line 75)
NoSpawn == [by |-> "nobody", entity |-> "nobody", step |-> 0]
Spawns(child, i, result, env) ==
    result # 0 /\ child = env.spawn.by /\ i = env.spawn.step

\* lines 71-79: the pass over the entities, from the last index down.
\* idx is the code's x + 1; st is [entities, log, name] with the entities'
\* x and y and what the listeners of handle-logic keep.
RECURSIVE LogicPass(_, _, _, _, _)
LogicPass(st, idx, i, msg, env) ==
    IF idx < 1 THEN st
    ELSE LET child == st.entities[idx] IN
         IF InWindow(st.x[child], st.y[child], env.camera)
         THEN LET result == Trigger(child, i, env.failing, env.failFrom)
                  during == IF Spawns(child, i, result, env)
                            THEN [st EXCEPT
                                    !.entities = Registered(@, env.spawn.entity),
                                    !.log = Append(@, ChildEntityAddedEvent(env.spawn.entity, i))]
                            ELSE IF Listens(child, result, env)
                            THEN HandleLogic(st, child, i, msg)
                            ELSE st
              IN  LogicPass([during EXCEPT
                                !.entities = IF result = 0 THEN Splice(@, idx) ELSE @,
                                !.log = Append(@, HandleLogicEvent(child, i, msg, result))],
                            idx - 1, i, msg, env)
         ELSE LogicPass(st, idx - 1, i, msg, env)

\* a step that checks the collision group before it reports the logic time
StepCollisionFirst(st, i, msg, env) ==
    [LogicPass(st, Len(st.entities), i, msg, env) EXCEPT
        !.log  = @ \o << CheckCollisionGroupEvent(i, msg),
                         TimeElapsedEvent(i, "Logic"),
                         TimeElapsedEvent(i, "Collision") >>,
        !.name = "Collision"]

\* lines 70-89: one step; st is [entities, log, name]
Step(st, i, msg, env) ==
    [LogicPass(st, Len(st.entities), i, msg, env) EXCEPT
        !.log  = @ \o << TimeElapsedEvent(i, "Logic"),
                         CheckCollisionGroupEvent(i, msg),
                         TimeElapsedEvent(i, "Collision") >>,
        !.name = "Collision"]

\* lines 70-90: the steps i, i + 1, ..., cycles - 1
RECURSIVE Steps(_, _, _, _, _)
Steps(st, i, cycles, msg, env) ==
    IF i >= cycles THEN st ELSE Steps(Step(st, i, msg, env), i + 1, cycles, msg, env)

\* lines 55-94: the whole handler
TickBody(resp, failing, failFrom, spawn, mover) ==
    /\ pre = Idle
    /\ \E accumulated \in {leftoverTime + resp.deltaT} :
       \E cycles \in {Cycles(accumulated, stepLength)} :
       \E msg \in {[deltaT |-> AdjustedDelta(accumulated, cycles)]} :
       \E ran \in {Steps([entities |-> entities, log |-> << >>, name |-> timeElapsed,
                          x |-> x, y |-> y, angle |-> angle, rotation |-> rotation,
                          ownerState |-> ownerState],
                         0, ClampedCycles(cycles), msg,
                         [camera |-> camera, failing |-> failing,
                          failFrom |-> failFrom, spawn |-> spawn, mover |-> mover])} :
           /\ pre' = Snapshot("tick", [deltaT |-> resp.deltaT, failing |-> failing,
                                       failFrom |-> failFrom, spawn |-> spawn])
           /\ leftoverTime' = LeftoverAfter(accumulated, cycles, stepLength)
           /\ message' = msg
           /\ entities' = ran.entities
           /\ timeElapsed' = ran.name
           /\ log' = Append(ran.log, TimeElapsedEvent(ClampedCycles(cycles), ran.name))
           /\ x' = ran.x /\ y' = ran.y
           /\ angle' = ran.angle
           /\ rotation' = ran.rotation
           /\ ownerState' = ran.ownerState
           /\ UNCHANGED <<definition, stepLength, camera, bufferDefaults, groupVars,
                          relocationVars, stateMapVars, fullscreenVars, controlVars>>

\* the entities that occur in a list
Members(list) == { list[k] : k \in 1..Len(list) }

\* the dispatch results a tick can meet: which registered entities have lost
\* their listeners, and from which step on
Failures ==
    { f \in [failing : SUBSET Members(entities), failFrom : 0..MaxFailStep] :
        f.failing = {} => f.failFrom = 0 }

Tick ==
    \E d \in DeltaTs, f \in Failures :
        /\ TickBody([deltaT |-> d], f.failing, f.failFrom, NoSpawn, NoMover)
        /\ UNCHANGED totals

\* the child-entity-added messages a listener can send during a tick: a
\* registered entity sends one for a child, in one of the first steps
SpawnSteps == {0, 1}

\* a tick long enough for a pass after the one that registers the child
LongDeltaTs == {46}
SpawnInputs ==
    [by : Members(entities), entity : Children \cup Spawned, step : SpawnSteps]

\* a tick during which a handle-logic listener registers a child
TickReentrant ==
    \E d \in LongDeltaTs, f \in Failures, spawn \in SpawnInputs :
        /\ Len(entities) <= MaxEntities
        /\ TickBody([deltaT |-> d], f.failing, f.failFrom, spawn, NoMover)
        /\ UNCHANGED totals

\* a tick of the scheduler whose registered hero has LogicRotationalMovement
\* as the listener of handle-logic
Mover == "hero"
TickMoving ==
    \E d \in DeltaTs :
        /\ TickBody([deltaT |-> d], {}, 0, NoSpawn, Mover)
        /\ UNCHANGED totals

\* the steps a call ran, read from the messages it triggered
StepsIn(events) ==
    Cardinality({ k \in 1..Len(events) : events[k].type = "check-collision-group" })

\* a tick call, with the sums over all calls kept: the time handed in, the
\* steps run, the whole steps each call's own deltaT is worth, and the steps
\* by which the accumulated time of a call exceeded the cap
TickCounted ==
    \E d \in DeltaTs, f \in Failures :
        /\ ticks < MaxTicks
        /\ TickBody([deltaT |-> d], f.failing, f.failFrom, NoSpawn, NoMover)
        /\ ticks' = ticks + 1
        /\ totalT' = totalT + d
        /\ totalSteps' = totalSteps + StepsIn(log')
        /\ totalCycles' = totalCycles + (d \div stepLength)
        /\ totalDropped' = totalDropped
               + Max(0, ((leftoverTime + d) \div stepLength) - maximumStepsPerTick)

(***************************************************************************)
(* CollisionGroup: updateAABB                                               *)
(***************************************************************************)
\* line 280: the box a member contributes; a member other than the owner that
\* has getCollisionGroupAABB (it owns a group) contributes its group's box
MemberAABB(g, member, boxes) ==
    IF member # g /\ member \in Groups THEN boxes[member] ELSE EntityAABB(member)

\* lines 278-281: reset, then include every member from index i on
RECURSIVE IncludeMembers(_, _, _, _, _)
IncludeMembers(box, g, members, i, boxes) ==
    IF i > Len(members) THEN box
    ELSE IncludeMembers(Include(box, MemberAABB(g, members[i], boxes)),
                        g, members, i + 1, boxes)

\* lines 278-281 without the reset: the members are included in the box
\* the group had
UpdatedWithoutReset(g, members, boxes) == IncludeMembers(boxes[g], g, members, 1, boxes)

UpdatedAABB(g, members, boxes) == IncludeMembers(EmptyAABB, g, members, 1, boxes)

(***************************************************************************)
(* CollisionGroup: child-entity-added, add-collision-entity                 *)
(***************************************************************************)
\* line 166 without its test of entity.immobile
AdmittedImmobile(entity, type) == Len(solidCollisions(entity, type)) > 0

\* line 166
Admitted(entity, type) == Len(solidCollisions(entity, type)) > 0 /\ ~immobile(entity)

\* lines 165-169: one entry per admitted type, from type i on
RECURSIVE AddedEntries(_, _, _)
AddedEntries(members, entity, i) ==
    IF i > Len(collisionTypes(entity)) THEN members
    ELSE AddedEntries(IF Admitted(entity, collisionTypes(entity)[i])
                      THEN Append(members, entity)
                      ELSE members,
                      entity, i + 1)

\* lines 164 and 179 without the test
TypesIgnored(entity) == TRUE

\* lines 164 and 179: if (types)
TypesGiven(entity) == HasCollisionTypes(entity)

\* the state of a group when a handler call starts, with the message
GroupSnapshot(op, g, entity) ==
    [op |-> op, group |-> g, arg |-> entity, solidEntities |-> solidEntities,
     aabb |-> aabb, prevAABB |-> prevAABB, x |-> x, y |-> y,
     previousX |-> previousX, previousY |-> previousY]

AddCollisionEntity(op, g, entity) ==
    /\ pre = Idle
    /\ Len(AddedEntries(solidEntities[g], entity, 1)) <= MaxMembers
    /\ pre' = GroupSnapshot(op, g, entity)
    /\ log' = << >>
    /\ IF TypesGiven(entity)
       THEN \E members \in {AddedEntries(solidEntities[g], entity, 1)} :
               /\ solidEntities' = [solidEntities EXCEPT ![g] = members]
               /\ aabb' = [aabb EXCEPT ![g] = UpdatedAABB(g, members, aabb)]
       ELSE UNCHANGED <<solidEntities, aabb>>
    /\ UNCHANGED <<schedVars, x, y, totals, prevAABB, otherVars>>

(***************************************************************************)
(* CollisionGroup: child-entity-removed, remove-collision-entity            *)
(***************************************************************************)
\* lines 182-187: the first entry that is entity is spliced out
RECURSIVE WithoutFirst(_, _, _)
WithoutFirst(members, entity, k) ==
    IF k > Len(members) THEN members
    ELSE IF members[k] = entity THEN Splice(members, k)
    ELSE WithoutFirst(members, entity, k + 1)

\* lines 180-189: once for every type that has a response, from type i on
\* a removal that takes one entry out, whatever the types are
RemovedOnce(members, entity, i) == WithoutFirst(members, entity, 1)

RECURSIVE RemovedEntries(_, _, _)
RemovedEntries(members, entity, i) ==
    IF i > Len(collisionTypes(entity)) THEN members
    ELSE RemovedEntries(IF Len(solidCollisions(entity, collisionTypes(entity)[i])) > 0
                        THEN WithoutFirst(members, entity, 1)
                        ELSE members,
                        entity, i + 1)

\* lines 174-192: what the handler does to the group
Removal(g, entity) ==
    /\ IF TypesGiven(entity)
       THEN \E members \in {RemovedEntries(solidEntities[g], entity, 1)} :
               /\ solidEntities' = [solidEntities EXCEPT ![g] = members]
               /\ aabb' = [aabb EXCEPT ![g] = UpdatedAABB(g, members, aabb)]
       ELSE UNCHANGED <<solidEntities, aabb>>
    /\ UNCHANGED <<schedVars, x, y, totals, prevAABB, otherVars>>

RemoveCollisionEntity(op, g, entity) ==
    /\ pre = Idle
    /\ pre' = GroupSnapshot(op, g, entity)
    /\ log' = << >>
    /\ Removal(g, entity)

\* removeCollisionEntity(entity) called right after addCollisionEntity(entity)
\* on the same group; the members before the pair are kept for comparison
PairSnapshot(g, entity, before) ==
    [op |-> "remove-after-add", group |-> g, arg |-> entity,
     solidEntities |-> solidEntities, aabb |-> aabb, prevAABB |-> prevAABB,
     x |-> x, y |-> y, previousX |-> previousX, previousY |-> previousY,
     before |-> before]

RemoveAfterAdd ==
    /\ pre # Idle
    /\ pre.op = "add-collision-entity"
    /\ pre' = PairSnapshot(pre.group, pre.arg, pre.solidEntities)
    /\ log' = << >>
    /\ Removal(pre.group, pre.arg)

(***************************************************************************)
(* CollisionGroup: getAABB, getPreviousAABB                                 *)
(***************************************************************************)
\* the members a query on group g forwards to the nested group of
NestedOf(members, g) == { m \in Members(members) \ {g} : m \in Groups }

\* the groups a query on g reaches through n or fewer levels of forwarding
RECURSIVE Forwarded(_, _, _)
Forwarded(all, g, n) ==
    IF n = 0 THEN {}
    ELSE NestedOf(all[g], g) \cup
         UNION { Forwarded(all, m, n - 1) : m \in NestedOf(all[g], g) }

\* a query on g that forwards to a group which forwards back to itself never
\* returns: the calls nest until the stack is exhausted
Endless(all, g) ==
    \E h \in {g} \cup Forwarded(all, g, Cardinality(Groups)) :
        h \in Forwarded(all, h, Cardinality(Groups))

\* lines 244-246 without the forwarding
ForwardsNever(g, member) == FALSE

\* lines 244-246: a member other than the owner that has a collisionGroup
\* stands for its group
ForwardsToGroup(g, member) == member # g /\ member \in Groups

\* lines 241-250 and 262-271: a new box that includes what every member
\* returns for the type, from member i on; pos holds the positions the
\* members' own boxes are taken at (current or previous)
RECURSIVE TypedAABB(_, _, _, _, _, _)
TypedAABB(box, all, g, type, i, pos) ==
    IF i > Len(all[g]) THEN box
    ELSE LET member == all[g][i]
             part == IF ForwardsToGroup(g, member)
                     THEN TypedAABB(EmptyAABB, all, member, type, 1, pos)
                     ELSE EntityTypeAABB(member, type, pos.x[member].n, pos.y[member].n)
         IN  TypedAABB(Include(box, part), all, g, type, i + 1, pos)

RangeError == [error |-> "RangeError"]

Returned(value) == [error |-> "", value |-> value]

\* lines 233-252
getAABB(g, collisionType) ==
    IF collisionType = NoType THEN Returned(aabb[g])
    ELSE IF Endless(solidEntities, g) THEN RangeError
    ELSE Returned(TypedAABB(EmptyAABB, solidEntities, g, collisionType, 1,
                            [x |-> x, y |-> y]))

\* lines 254-273
getPreviousAABB(g, collisionType) ==
    IF collisionType = NoType THEN Returned(prevAABB[g])
    ELSE IF Endless(solidEntities, g) THEN RangeError
    ELSE Returned(TypedAABB(EmptyAABB, solidEntities, g, collisionType, 1,
                            [x |-> previousX, y |-> previousY]))

\* lines 241 and 262 with the cached box in place of a new one
CacheAccumulated(cached, result) ==
    IF result.error = "" THEN Include(cached, result.value) ELSE cached

\* lines 241 and 262: the members are included in a new box, the cached one
\* is only read
CacheAfterQuery(cached, result) == cached

GetAABBCall(g, collisionType) ==
    /\ pre = Idle
    /\ pre' = GroupSnapshot("getAABB", g, collisionType)
    /\ \E result \in {getAABB(g, collisionType)} :
          /\ log' = <<result>>
          /\ aabb' = [aabb EXCEPT ![g] = CacheAfterQuery(aabb[g], result)]
    /\ UNCHANGED <<schedVars, x, y, totals, solidEntities, prevAABB, otherVars>>

GetPreviousAABBCall(g, collisionType) ==
    /\ pre = Idle
    /\ pre' = GroupSnapshot("getPreviousAABB", g, collisionType)
    /\ \E result \in {getPreviousAABB(g, collisionType)} :
          /\ log' = <<result>>
          /\ prevAABB' = [prevAABB EXCEPT ![g] = CacheAfterQuery(prevAABB[g], result)]
    /\ UNCHANGED <<schedVars, x, y, totals, solidEntities, aabb, otherVars>>

(***************************************************************************)
(* CollisionGroup: appendUniqueItems, getCollisionTypes, getSolidCollisions *)
(***************************************************************************)
\* lines 20-31 without the search of the host array
AppendAllFrom(hostArray, insertArray, i, length) == hostArray \o insertArray

\* lines 20-31: the items of insertArray from index i on are pushed unless
\* found among the first `length` items of the host array
RECURSIVE AppendUniqueFrom(_, _, _, _)
AppendUniqueFrom(hostArray, insertArray, i, length) ==
    IF i > Len(insertArray) THEN hostArray
    ELSE AppendUniqueFrom(
             IF \E j \in 1..length : insertArray[i] = hostArray[j]
             THEN hostArray
             ELSE Append(hostArray, insertArray[i]),
             insertArray, i + 1, length)

\* lines 14-34: length is read once, before the loop
appendUniqueItems(hostArray, insertArray) ==
    AppendUniqueFrom(hostArray, insertArray, 1, Len(hostArray))

\* entity.getCollisionTypes() of the entity's own collision component
EntityCollisionTypes(e) == collisionTypes(e)

\* entity.getSolidCollisions() of the entity's own collision component: the
\* responses under each of its collision types
EntitySolidCollisions(e) ==
    [type \in Members(collisionTypes(e)) |-> solidCollisions(e, type)]

\* lines 199-205, from member i on
RECURSIVE CompiledTypes(_, _, _, _)
CompiledTypes(compiledList, all, g, i) ==
    IF i > Len(all[g]) THEN compiledList
    ELSE LET member == all[g][i]
             part == IF ForwardsToGroup(g, member)
                     THEN CompiledTypes(<< >>, all, member, 1)
                     ELSE EntityCollisionTypes(member)
         IN  CompiledTypes(appendUniqueItems(compiledList, part), all, g, i + 1)

\* lines 194-208
getCollisionTypes(g) ==
    IF Endless(solidEntities, g) THEN RangeError
    ELSE Returned(CompiledTypes(<< >>, solidEntities, g, 1))

\* lines 223-227: every key of entityList is merged into compiledList
MergedCollisions(compiledList, entityList) ==
    [key \in DOMAIN compiledList \cup DOMAIN entityList |->
        IF key \in DOMAIN entityList
        THEN appendUniqueItems(IF key \in DOMAIN compiledList
                               THEN compiledList[key] ELSE << >>,
                               entityList[key])
        ELSE compiledList[key]]

\* lines 217-228, from member i on
RECURSIVE CompiledCollisions(_, _, _, _)
CompiledCollisions(compiledList, all, g, i) ==
    IF i > Len(all[g]) THEN compiledList
    ELSE LET member == all[g][i]
             entityList == IF ForwardsToGroup(g, member)
                           THEN CompiledCollisions(<< >>, all, member, 1)
                           ELSE EntitySolidCollisions(member)
         IN  CompiledCollisions(MergedCollisions(compiledList, entityList),
                                all, g, i + 1)

\* lines 210-231
getSolidCollisions(g) ==
    IF Endless(solidEntities, g) THEN RangeError
    ELSE Returned(CompiledCollisions(<< >>, solidEntities, g, 1))

GetCollisionTypesCall(g) ==
    /\ pre = Idle
    /\ pre' = GroupSnapshot("getCollisionTypes", g, NoType)
    /\ log' = <<getCollisionTypes(g)>>
    /\ UNCHANGED <<schedVars, x, y, totals, groupVars, otherVars>>

GetSolidCollisionsCall(g) ==
    /\ pre = Idle
    /\ pre' = GroupSnapshot("getSolidCollisions", g, NoType)
    /\ log' = <<getSolidCollisions(g)>>
    /\ UNCHANGED <<schedVars, x, y, totals, groupVars, otherVars>>

(***************************************************************************)
(* CollisionGroup: getShapes, getPrevShapes                                 *)
(***************************************************************************)
\* entity.getShapes(type) and entity.getPrevShapes(type) of the entity's own
\* collision component: the entity's one shape object of the type (a shape
\* object is named by its owner, its type and the frame it is of), and a
\* falsy value (here the empty list) when the entity has no such type
EntityShapes(e, type, frame) ==
    IF \E i \in 1..Len(collisionTypes(e)) : collisionTypes(e)[i] = type
    THEN << [owner |-> e, type |-> type, frame |-> frame] >>
    ELSE << >>

\* lines 290-299 and 309-318, from member i on
RECURSIVE CompiledShapes(_, _, _, _, _, _)
CompiledShapes(shapes, all, g, type, frame, i) ==
    IF i > Len(all[g]) THEN shapes
    ELSE LET member == all[g][i]
             newShapes == IF ForwardsToGroup(g, member)
                          THEN CompiledShapes(<< >>, all, member, type, frame, 1)
                          ELSE EntityShapes(member, type, frame)
         IN  CompiledShapes(shapes \o newShapes, all, g, type, frame, i + 1)

\* lines 284-301
getShapes(g, collisionType) ==
    IF Endless(solidEntities, g) THEN RangeError
    ELSE Returned(CompiledShapes(<< >>, solidEntities, g, collisionType, "current", 1))

\* lines 303-320
getPrevShapes(g, collisionType) ==
    IF Endless(solidEntities, g) THEN RangeError
    ELSE Returned(CompiledShapes(<< >>, solidEntities, g, collisionType, "previous", 1))

GetShapesCall(g, collisionType) ==
    /\ pre = Idle
    /\ pre' = GroupSnapshot("getShapes", g, collisionType)
    /\ log' = <<getShapes(g, collisionType)>>
    /\ UNCHANGED <<schedVars, x, y, totals, groupVars, otherVars>>

GetPrevShapesCall(g, collisionType) ==
    /\ pre = Idle
    /\ pre' = GroupSnapshot("getPrevShapes", g, collisionType)
    /\ log' = <<getPrevShapes(g, collisionType)>>
    /\ UNCHANGED <<schedVars, x, y, totals, groupVars, otherVars>>

(***************************************************************************)
(* StateMap: update                                                         *)
(***************************************************************************)
\* the state maps handed to update: some of the keys, each true or false
NewStates == UNION { [keys -> {"true", "false"}] : keys \in SUBSET StateKeys }

\* line 213: this.get(state) !== value
Differs(map, newState, key) == map[key] # newState[key]

\* lines 210-217 with the map replaced by newState
ReplacedState(map, newState) ==
    [key \in StateKeys |->
        IF key \in DOMAIN newState THEN newState[key] ELSE "undefined"]

\* lines 210-217: the keys whose value differs are set
UpdatedState(map, newState) ==
    [key \in StateKeys |->
        IF key \in DOMAIN newState /\ Differs(map, newState, key)
        THEN newState[key] ELSE map[key]]

\* lines 207, 215: changed
Changed(map, newState) == \E key \in DOMAIN newState : Differs(map, newState, key)

\* line 219
UpdateResult(map, newState) == Changed(map, newState)

Update(newState) ==
    /\ pre = Idle
    /\ pre' = [op |-> "update", arg |-> newState, state |-> state]
    /\ state' = UpdatedState(state, newState)
    /\ log' = <<Returned(UpdateResult(state, newState))>>
    /\ UNCHANGED <<schedVars, movementVars, x, y, totals, groupVars, relocationVars, fullscreenVars>>

\* lines 230-245: false at the first key of otherState whose value is not
\* the same here, true when there is none
includes(map, otherState) == \A key \in DOMAIN otherState : map[key] = otherState[key]

IncludesCall(otherState) ==
    /\ pre = Idle
    /\ pre' = [op |-> "includes", arg |-> otherState, state |-> state]
    /\ log' = <<Returned(includes(state, otherState))>>
    /\ UNCHANGED <<schedVars, movementVars, x, y, totals, groupVars, relocationVars,
                   stateMapVars, fullscreenVars>>

\* a call that follows update(newState) on the same two maps keeps the map
\* as it was before that update, and what the update returned
FollowsUpdate(op) ==
    [op |-> op, arg |-> pre.arg, state |-> state, before |-> pre.state,
     first |-> log[1].value]

\* lines 230-245, called with the map that update was just called with
IncludesAfterUpdate ==
    /\ pre # Idle /\ pre.op = "update"
    /\ pre' = FollowsUpdate("includes-after-update")
    /\ log' = <<Returned(includes(state, pre.arg))>>
    /\ UNCHANGED <<schedVars, movementVars, x, y, totals, groupVars, relocationVars,
                   stateMapVars, fullscreenVars>>

\* lines 202-221, called a second time with the same map
UpdateAgain ==
    /\ pre # Idle /\ pre.op = "update"
    /\ pre' = FollowsUpdate("update-again")
    /\ state' = UpdatedState(state, pre.arg)
    /\ log' = <<Returned(UpdateResult(state, pre.arg))>>
    /\ UNCHANGED <<schedVars, movementVars, x, y, totals, groupVars, relocationVars, fullscreenVars>>

(***************************************************************************)
(* Fullscreen: turnOffFullScreen, toggle-fullscreen, and the browser.  The  *)
(* three prefixed forms of the fullscreen API are one here: a browser has   *)
(* one of them.                                                             *)
(***************************************************************************)
FullScreenClass == "full-screen"

\* line 32 without the replacement
ClassKept(classes) == classes

\* line 32: className.replace(/ full-screen/g, '')
RECURSIVE ClassRemoved(_)
ClassRemoved(classes) ==
    IF classes = << >> THEN << >>
    ELSE IF classes[1] = FullScreenClass THEN ClassRemoved(Tail(classes))
    ELSE <<classes[1]>> \o ClassRemoved(Tail(classes))

\* line 47: className += ' full-screen'
ClassAdded(classes) == Append(classes, FullScreenClass)

\* line 33 and line 57: platypus.game.bindings.resize.callback()
ResizeEvent == [type |-> "resize"]

FullscreenSnapshot(op) ==
    [op |-> op, enabled |-> enabled, className |-> className,
     fullscreenElement |-> fullscreenElement, requests |-> requests]

\* lines 35-59; asks is whether the browser is asked at all (lines 48-56: no
\* request in Safari or without a fullscreen API)
ToggleFullscreen(asks) ==
    /\ pre = Idle
    /\ Len(requests) < MaxPending
    /\ pre' = FullscreenSnapshot("toggle-fullscreen")
    /\ IF enabled
       THEN /\ requests' = IF asks THEN Append(requests, "exit") ELSE requests
            /\ enabled' = FALSE
            /\ className' = ClassRemoved(className)
       ELSE /\ enabled' = TRUE
            /\ className' = ClassAdded(className)
            /\ requests' = IF asks THEN Append(requests, "request") ELSE requests
    /\ log' = <<ResizeEvent>>
    /\ UNCHANGED <<schedVars, movementVars, x, y, totals, groupVars, relocationVars, stateMapVars,
                   fullscreenElement, changeEvents>>

\* lines 61-75: a change event is delivered
FullscreenChange ==
    /\ pre = Idle
    /\ changeEvents > 0
    /\ changeEvents' = changeEvents - 1
    /\ pre' = FullscreenSnapshot("fullscreenchange")
    /\ IF ~fullscreenElement
       THEN /\ enabled' = FALSE
            /\ className' = ClassRemoved(className)
            /\ log' = <<ResizeEvent>>
       ELSE /\ UNCHANGED <<enabled, className>>
            /\ log' = << >>
    /\ UNCHANGED <<schedVars, movementVars, x, y, totals, groupVars, relocationVars, stateMapVars,
                   fullscreenElement, requests>>

\* the browser carries out the oldest request: it grants or refuses to go
\* fullscreen, or leaves fullscreen; a change of the fullscreen element
\* queues a change event
BrowserCarriesOut(grants) ==
    /\ pre = Idle
    /\ requests # << >>
    /\ changeEvents < MaxPending
    /\ requests' = Tail(requests)
    /\ fullscreenElement' = IF Head(requests) = "request"
                            THEN (fullscreenElement \/ grants) ELSE FALSE
    /\ changeEvents' = IF fullscreenElement' # fullscreenElement
                       THEN changeEvents + 1 ELSE changeEvents
    /\ UNCHANGED <<schedVars, movementVars, x, y, totals, groupVars, relocationVars, stateMapVars,
                   enabled, className, log, pre>>

\* the user leaves fullscreen with the Escape key
UserEscapes ==
    /\ pre = Idle
    /\ fullscreenElement
    /\ changeEvents < MaxPending
    /\ fullscreenElement' = FALSE
    /\ changeEvents' = changeEvents + 1
    /\ UNCHANGED <<schedVars, movementVars, x, y, totals, groupVars, relocationVars, stateMapVars,
                   enabled, className, requests, log, pre>>

(***************************************************************************)
(* CollisionGroup: prepareCollision                                         *)
(***************************************************************************)
\* the positions relocateEntity is called with
Vectors == { [x |-> Num(1), y |-> Num(1)], [x |-> Num(2), y |-> Num(3)] }

\* collisionData: the owners of thisShape in its x entries and its y entries
CollisionData ==
    { [x |-> {}, y |-> {}], [x |-> {"platform"}, y |-> {}], [x |-> {"box"}, y |-> {}],
      [x |-> {"platform"}, y |-> {"platform"}] }

\* lines 328-338, from member i on; st holds saveDX, saveDY, saveOX, saveOY.
\* A member's own prepareCollision places its shapes, which are not part of
\* this state.
RECURSIVE PreparedFrom(_, _, _, _, _)
PreparedFrom(st, all, g, p, i) ==
    IF i > Len(all[g]) THEN st
    ELSE LET childEntity == all[g][i]
             oX == Minus(previousX[g], previousX[childEntity])
             oY == Minus(previousY[g], previousY[childEntity])
             saved == [saveDX |-> [st.saveDX EXCEPT ![childEntity] =
                                      Minus(x[childEntity], previousX[childEntity])],
                       saveDY |-> [st.saveDY EXCEPT ![childEntity] =
                                      Minus(y[childEntity], previousY[childEntity])],
                       saveOX |-> [st.saveOX EXCEPT ![childEntity] = oX],
                       saveOY |-> [st.saveOY EXCEPT ![childEntity] = oY]]
             nested == IF ForwardsToGroup(g, childEntity)
                       THEN PreparedFrom(saved, all, childEntity,
                                         [x |-> Minus(p.x, oX), y |-> Minus(p.y, oY)], 1)
                       ELSE saved
         IN  PreparedFrom(nested, all, g, p, i + 1)

RelocationSnapshot(op, g, vector, data) ==
    [op |-> op, group |-> g, vector |-> vector, data |-> data,
     solidEntities |-> solidEntities, x |-> x, y |-> y,
     previousX |-> previousX, previousY |-> previousY,
     saveDX |-> saveDX, saveDY |-> saveDY, saveOX |-> saveOX, saveOY |-> saveOY]

\* lines 322-339
PrepareCollision(g, p) ==
    /\ pre = Idle
    /\ passes < MaxPasses
    /\ ~Endless(solidEntities, g)
    /\ pre' = RelocationSnapshot("prepareCollision", g, p, [x |-> {}, y |-> {}])
    /\ log' = << >>
    /\ \E st \in {PreparedFrom([saveDX |-> saveDX, saveDY |-> saveDY,
                                  saveOX |-> saveOX, saveOY |-> saveOY],
                                 solidEntities, g, p, 1)} :
          /\ saveDX' = st.saveDX /\ saveDY' = st.saveDY
          /\ saveOX' = st.saveOX /\ saveOY' = st.saveOY
    /\ UNCHANGED <<schedVars, movementVars, x, y, totals, groupVars, previousX, previousY, passes,
                   stateMapVars, fullscreenVars>>

(***************************************************************************)
(* CollisionGroup: relocateEntity                                           *)
(***************************************************************************)
\* lines 364-376 without the reset
SavedKept(saved, owners, g) == saved

\* lines 364-369 and 371-376: the saved delta is reset when the owner is
\* thisShape.owner of an entry
SavedAfterEntries(saved, owners, g) == IF g \in owners THEN Num(0) ELSE saved

\* what relocateEntity did to the member at one index of a group: its
\* position after its own saved delta was added (lines 384-385) and after
\* the owner's was (lines 386-389)
Relocation(g, entity, own, carried) ==
    [group |-> g, entity |-> entity, own |-> own, carried |-> carried]

\* a member's own relocateEntity puts the member at the position given
EntityRelocated(st, entity, v) ==
    [st EXCEPT !.x[entity] = v.x, !.y[entity] = v.y]

\* lines 356-391; st holds x, y, saveDX, saveDY and the record of the loop
RECURSIVE RelocatedGroup(_, _, _, _, _)
RECURSIVE RelocatedFrom(_, _, _, _, _, _)
RelocatedGroup(st, all, g, vector, data) ==
    LET dx == Minus(st.saveDX[g], Minus(vector.x, previousX[g]))
        dy == Minus(st.saveDY[g], Minus(vector.y, previousY[g]))
    IN  RelocatedFrom([st EXCEPT !.saveDX[g] = SavedAfterEntries(dx, data.x, g),
                                 !.saveDY[g] = SavedAfterEntries(dy, data.y, g)],
                      all, g, vector, data, 1)

\* lines 378-390, from member i on
RelocatedFrom(st, all, g, vector, data, i) ==
    IF i > Len(all[g]) THEN st
    ELSE LET entity == all[g][i]
             v == [x |-> Minus(vector.x, saveOX[entity]),
                   y |-> Minus(vector.y, saveOY[entity])]
             moved == IF ForwardsToGroup(g, entity)
                      THEN RelocatedGroup(st, all, entity, v, data)
                      ELSE EntityRelocated(st, entity, v)
             own == [x |-> Plus(moved.x[entity], moved.saveDX[entity]),
                     y |-> Plus(moved.y[entity], moved.saveDY[entity])]
             carried == IF entity # g
                        THEN [x |-> Plus(own.x, moved.saveDX[g]),
                              y |-> Plus(own.y, moved.saveDY[g])]
                        ELSE own
         IN  RelocatedFrom([moved EXCEPT !.x[entity] = carried.x,
                                         !.y[entity] = carried.y,
                                         !.log = Append(moved.log,
                                                        Relocation(g, entity, own, carried))],
                           all, g, vector, data, i + 1)

RelocateEntity(g, vector, data) ==
    /\ pre = Idle
    /\ passes < MaxPasses
    /\ ~Endless(solidEntities, g)
    /\ passes' = passes + 1
    /\ pre' = RelocationSnapshot("relocateEntity", g, vector, data)
    /\ \E st \in {RelocatedGroup([x |-> x, y |-> y, saveDX |-> saveDX,
                                    saveDY |-> saveDY, log |-> << >>],
                                   solidEntities, g, vector, data)} :
          /\ x' = st.x /\ y' = st.y
          /\ saveDX' = st.saveDX /\ saveDY' = st.saveDY
          /\ log' = st.log
    /\ UNCHANGED <<schedVars, movementVars, totals, groupVars, previousX, previousY, saveOX, saveOY,
                   stateMapVars, fullscreenVars>>

(***************************************************************************)
(* CollisionGroup: relocate-entity                                          *)
(***************************************************************************)
\* lines 153-156
RelocateEntityEvent(g) ==
    /\ pre = Idle
    /\ passes > 0
    /\ previousX[g] # x[g] \/ previousY[g] # y[g]
    /\ pre' = RelocationSnapshot("relocate-entity", g, [x |-> x[g], y |-> y[g]],
                                 [x |-> {}, y |-> {}])
    /\ log' = << >>
    /\ previousX' = [previousX EXCEPT ![g] = x[g]]
    /\ previousY' = [previousY EXCEPT ![g] = y[g]]
    /\ aabb' = [aabb EXCEPT ![g] = UpdatedAABB(g, solidEntities[g], aabb)]
    /\ UNCHANGED <<schedVars, movementVars, x, y, totals, solidEntities, prevAABB, saveDX, saveDY,
                   saveOX, saveOY, passes, stateMapVars, fullscreenVars>>

\* how far a body moves in a frame
Moves == { <<2, 3>> }

\* the logic of a frame moves a body away from where it started
MoveBody(e, d) ==
    /\ pre = Idle
    /\ passes < MaxPasses
    /\ x[e] = Num(StartPosition(e)[1]) /\ y[e] = Num(StartPosition(e)[2])
    /\ x' = [x EXCEPT ![e] = Plus(x[e], Num(d[1]))]
    /\ y' = [y EXCEPT ![e] = Plus(y[e], Num(d[2]))]
    /\ UNCHANGED <<schedVars, log, pre, totals, groupVars, otherVars>>

(***************************************************************************)
(* CollisionGroup: collisionGroup.getAllEntities, movePreviousX             *)
(***************************************************************************)
\* what a call does at one entry of solidEntities: it enters the group of
\* the member, or handles the member itself; or the stack is exhausted
EnteredGroup(g, childEntity, depth, x0) ==
    [kind |-> "enter", group |-> childEntity, from |-> g, entity |-> childEntity,
     depth |-> depth, x |-> x0]
HandledEntity(g, childEntity, depth, x0) ==
    [kind |-> "entity", group |-> g, from |-> g, entity |-> childEntity,
     depth |-> depth, x |-> x0]
StackExhausted(g, depth) ==
    [kind |-> "overflow", group |-> g, from |-> g, entity |-> g,
     depth |-> depth, x |-> Undefined]

\* line 60 with the owner counted through its own collisionGroup
CountedThroughAnyGroup(g, childEntity) == childEntity \in Groups

\* line 60: a member other than the owner that has a collisionGroup is
\* counted through that group
CountedThroughGroup(g, childEntity) == childEntity # g /\ childEntity \in Groups

\* lines 59-66, from entry i on, as the calls nest; depth is the number of
\* getAllEntities calls on the stack
RECURSIVE AllEntitiesFrom(_, _, _, _)
AllEntitiesFrom(all, g, i, depth) ==
    IF depth > MaxDepth THEN << StackExhausted(g, depth) >>
    ELSE IF i > Len(all[g]) THEN << >>
    ELSE LET childEntity == all[g][i]
         IN  (IF CountedThroughGroup(g, childEntity)
              THEN << EnteredGroup(g, childEntity, depth + 1, Undefined) >>
                       \o AllEntitiesFrom(all, childEntity, 1, depth + 1)
              ELSE << HandledEntity(g, childEntity, depth, Undefined) >>)
             \o AllEntitiesFrom(all, g, i + 1, depth)

\* the entries of a record of calls that are of one kind
OfKind(calls, kind) == { k \in 1..Len(calls) : calls[k].kind = kind }

\* lines 54-69: count is the number of entities handled themselves
getAllEntities(calls) ==
    IF OfKind(calls, "overflow") # {} THEN RangeError
    ELSE Returned(Cardinality(OfKind(calls, "entity")))

GetAllEntitiesCall(g) ==
    /\ pre = Idle
    /\ pre' = GroupSnapshot("getAllEntities", g, NoType)
    /\ \E calls \in {AllEntitiesFrom(solidEntities, g, 1, 1)} :
          log' = << getAllEntities(calls) >> \o calls
    /\ UNCHANGED <<schedVars, x, y, totals, groupVars, otherVars>>

\* lines 341-354, from entry i on: the member's own movePreviousX, or that
\* of its group, is called with x - offset.  A member's own movePreviousX
\* places its shapes, which are not part of this state.
RECURSIVE MovedPreviousFrom(_, _, _, _, _)
MovedPreviousFrom(all, g, px, i, depth) ==
    IF depth > MaxDepth THEN << StackExhausted(g, depth) >>
    ELSE IF i > Len(all[g]) THEN << >>
    ELSE LET childEntity == all[g][i]
             offset == saveOX[childEntity]
         IN  (IF ForwardsToGroup(g, childEntity)
              THEN << EnteredGroup(g, childEntity, depth + 1, Minus(px, offset)) >>
                       \o MovedPreviousFrom(all, childEntity, Minus(px, offset), 1,
                                            depth + 1)
              ELSE << HandledEntity(g, childEntity, depth, Minus(px, offset)) >>)
             \o MovedPreviousFrom(all, g, px, i + 1, depth)

MovePreviousX(g, px) ==
    /\ pre = Idle
    /\ ~Endless(solidEntities, g)
    /\ pre' = RelocationSnapshot("movePreviousX", g, [x |-> px, y |-> Undefined],
                                 [x |-> {}, y |-> {}])
    /\ log' = MovedPreviousFrom(solidEntities, g, px, 1, 1)
    /\ UNCHANGED <<schedVars, x, y, totals, groupVars, otherVars>>

(***************************************************************************)
(* LogicRotationalMovement: the directional messages                        *)
(***************************************************************************)
\* the message a directional handler is triggered with: none, or one with
\* pressed true or false
ControlMessages == {"none", "pressed", "released"}

\* !state || state.pressed
Pressed(msg) == msg # "released"

Controlled(op, msg) ==
    /\ pre = Idle
    /\ pre' = Snapshot(op, msg)
    /\ log' = << >>
    /\ UNCHANGED <<schedVars, x, y, totals, groupVars, relocationVars, stateMapVars,
                   fullscreenVars, angle, rotation, ownerState>>

\* lines 100-106
TurnRight(msg) ==
    /\ Controlled("turn-right", msg)
    /\ turningRight' = Pressed(msg)
    /\ UNCHANGED <<moving, magnitude, turningLeft>>

\* lines 107-113
TurnLeft(msg) ==
    /\ Controlled("turn-left", msg)
    /\ turningLeft' = Pressed(msg)
    /\ UNCHANGED <<moving, magnitude, turningRight>>

\* lines 114-121
GoForward(msg) ==
    /\ Controlled("go-forward", msg)
    /\ moving' = Pressed(msg)
    /\ magnitude' = IF Pressed(msg) THEN speed ELSE magnitude
    /\ UNCHANGED <<turningRight, turningLeft>>

\* lines 122-129
GoBackward(msg) ==
    /\ Controlled("go-backward", msg)
    /\ moving' = Pressed(msg)
    /\ magnitude' = IF Pressed(msg) THEN Minus(Num(0), speed) ELSE magnitude
    /\ UNCHANGED <<turningRight, turningLeft>>

\* lines 130-136
Stop(msg) ==
    /\ Controlled("stop", msg)
    /\ moving' = IF Pressed(msg) THEN FALSE ELSE moving
    /\ turningLeft' = IF Pressed(msg) THEN FALSE ELSE turningLeft
    /\ turningRight' = IF Pressed(msg) THEN FALSE ELSE turningRight
    /\ UNCHANGED magnitude

\* lines 137-141
StopMoving(msg) ==
    /\ Controlled("stop-moving", msg)
    /\ moving' = IF Pressed(msg) THEN FALSE ELSE moving
    /\ UNCHANGED <<magnitude, turningRight, turningLeft>>

\* lines 142-147
StopTurning(msg) ==
    /\ Controlled("stop-turning", msg)
    /\ turningLeft' = IF Pressed(msg) THEN FALSE ELSE turningLeft
    /\ turningRight' = IF Pressed(msg) THEN FALSE ELSE turningRight
    /\ UNCHANGED <<moving, magnitude>>

(***************************************************************************)
(* The entities move between two messages of the scheduler.                 *)
(***************************************************************************)
MoveEntity(e, p) ==
    /\ pre = Idle
    /\ typeof(x[e]) = "number"
    /\ x' = [x EXCEPT ![e] = Num(p[1])]
    /\ y' = [y EXCEPT ![e] = Num(p[2])]
    /\ UNCHANGED <<schedVars, log, pre, totals, groupVars, otherVars>>

(***************************************************************************)
(* The record of a handler call (pre, log) is read and put away before the  *)
(* next message is handled; nothing of the program changes.                 *)
(***************************************************************************)
Observe ==
    /\ pre # Idle
    /\ pre' = Idle
    /\ log' = << >>
    /\ UNCHANGED <<schedVars, x, y, totals, groupVars, otherVars>>

Next ==
    \/ \E e \in Children : ChildEntityAdded(e)
    \/ \E msg \in CameraMessages : CameraUpdate(msg)
    \/ Tick
    \/ \E p \in Positions : MoveEntity("hero", p)
    \/ Observe

Spec == Init /\ [][Next]_vars

\* the scheduler with listeners that register children during the pass
NextReentrant ==
    \/ \E e \in Children : ChildEntityAdded(e)
    \/ \E msg \in CameraMessages : CameraUpdate(msg)
    \/ TickReentrant
    \/ Observe

SpecReentrant == Init /\ [][NextReentrant]_vars

\* the scheduler with a registered entity that moves by
\* LogicRotationalMovement
NextMovement ==
    \/ ChildEntityAdded(Mover)
    \/ \E msg \in CameraMessages : CameraUpdate(msg)
    \/ TickMoving
    \/ \E msg \in ControlMessages : TurnRight(msg)
    \/ \E msg \in ControlMessages : TurnLeft(msg)
    \/ \E msg \in ControlMessages : GoForward(msg)
    \/ \E msg \in ControlMessages : GoBackward(msg)
    \/ \E msg \in ControlMessages : Stop(msg)
    \/ \E msg \in ControlMessages : StopMoving(msg)
    \/ \E msg \in ControlMessages : StopTurning(msg)
    \/ Observe

SpecMovement == Init /\ [][NextMovement]_vars

\* tick calls only, with the sums over the calls
NextTotals ==
    \/ TickCounted
    \/ Observe

SpecTotals == Init /\ [][NextTotals]_vars

\* the messages of the collision groups
NextGroup ==
    \/ \E op \in {"child-entity-added", "add-collision-entity"}, g \in Groups,
          e \in Bodies : AddCollisionEntity(op, g, e)
    \/ \E op \in {"child-entity-removed", "remove-collision-entity"}, g \in Groups,
          e \in Bodies : RemoveCollisionEntity(op, g, e)
    \/ \E g \in Groups, type \in QueryTypes : GetAABBCall(g, type)
    \/ \E g \in Groups, type \in QueryTypes : GetPreviousAABBCall(g, type)
    \/ \E g \in Groups : GetCollisionTypesCall(g)
    \/ \E g \in Groups : GetSolidCollisionsCall(g)
    \/ \E g \in Groups, type \in QueryTypes \ {NoType} : GetShapesCall(g, type)
    \/ \E g \in Groups, type \in QueryTypes \ {NoType} : GetPrevShapesCall(g, type)
    \/ Observe

\* the membership of the groups: entities are added and removed, and
\* removed straight after they were added
NextMembership ==
    \/ \E g \in Groups, e \in Bodies : AddCollisionEntity("add-collision-entity", g, e)
    \/ \E g \in Groups, e \in Bodies :
          RemoveCollisionEntity("remove-collision-entity", g, e)
    \/ RemoveAfterAdd
    \/ Observe

\* the scheduler is left as constructed with an empty definition
InitGroup ==
    /\ Init
    /\ definition = [stepLength |-> Undefined, buffer |-> Undefined]

SpecGroup == InitGroup /\ [][NextGroup]_vars

SpecMembership == InitGroup /\ [][NextMembership]_vars

\* who is carried by whom: the owners themselves, the box on the platform,
\* the passenger on the box
Carried ==
    { <<"platform", "platform">>, <<"platform", "box">>,
      <<"box", "box">>, <<"box", "passenger">>, <<"box", "platform">> }

\* the groups are filled before the bodies move and the pass begins, and a
\* body is put in a group once
FillGroup(g, entity) ==
    /\ \A e \in Entity :
          x[e] = Init_x(e) /\ y[e] = Init_y(e) /\ typeof(saveOX[e]) = "undefined"
    /\ entity \notin Members(solidEntities[g])
    /\ AddCollisionEntity("add-collision-entity", g, entity)

\* a collision pass over the groups
NextRelocate ==
    \/ \E c \in Carried : FillGroup(c[1], c[2])
    \/ \E d \in Moves : MoveBody("platform", d)
    \/ \E g \in Groups : PrepareCollision(g, [x |-> x[g], y |-> y[g]])
    \/ \E g \in Groups, vector \in Vectors, data \in CollisionData :
          RelocateEntity(g, vector, data)
    \/ \E g \in Groups : RelocateEntityEvent(g)
    \/ Observe

SpecRelocate == InitGroup /\ [][NextRelocate]_vars

\* a member leaves its group before the bodies move and the pass begins
DrainGroup(g, entity) ==
    /\ \A e \in Entity :
          x[e] = Init_x(e) /\ y[e] = Init_y(e) /\ typeof(saveOX[e]) = "undefined"
    /\ entity \in Members(solidEntities[g])
    /\ RemoveCollisionEntity("remove-collision-entity", g, entity)

\* the cached box of a group over a collision pass: members come and go,
\* the platform moves, the groups are relocated
NextAABB ==
    \/ \E c \in Carried : FillGroup(c[1], c[2])
    \/ \E c \in Carried : DrainGroup(c[1], c[2])
    \/ \E d \in Moves : MoveBody("platform", d)
    \/ \E g \in Groups : PrepareCollision(g, [x |-> x[g], y |-> y[g]])
    \/ \E g \in Groups :
          RelocateEntity(g, [x |-> Num(1), y |-> Num(1)], [x |-> {}, y |-> {}])
    \/ \E g \in Groups : RelocateEntityEvent(g)
    \/ Observe

SpecAABB == InitGroup /\ [][NextAABB]_vars

\* every method that walks the members of a group, on the groups as they
\* are filled
NextTraversal ==
    \/ \E c \in Carried : FillGroup(c[1], c[2])
    \/ \E g \in Groups, type \in QueryTypes : GetAABBCall(g, type)
    \/ \E g \in Groups, type \in QueryTypes : GetPreviousAABBCall(g, type)
    \/ \E g \in Groups : GetCollisionTypesCall(g)
    \/ \E g \in Groups : GetSolidCollisionsCall(g)
    \/ \E g \in Groups, type \in QueryTypes \ {NoType} : GetShapesCall(g, type)
    \/ \E g \in Groups, type \in QueryTypes \ {NoType} : GetPrevShapesCall(g, type)
    \/ \E g \in Groups : GetAllEntitiesCall(g)
    \/ \E g \in Groups : PrepareCollision(g, [x |-> x[g], y |-> y[g]])
    \/ \E g \in Groups : MovePreviousX(g, previousX[g])
    \/ \E g \in Groups :
          RelocateEntity(g, [x |-> Num(1), y |-> Num(1)], [x |-> {}, y |-> {}])
    \/ Observe

SpecTraversal == InitGroup /\ [][NextTraversal]_vars

\* the calls on a state map
NextStateMap ==
    \/ \E newState \in NewStates : Update(newState)
    \/ \E otherState \in NewStates : IncludesCall(otherState)
    \/ IncludesAfterUpdate
    \/ UpdateAgain
    \/ Observe

SpecStateMap == InitGroup /\ [][NextStateMap]_vars

\* the Fullscreen component and the browser
NextFullscreen ==
    \/ \E asks \in BOOLEAN : ToggleFullscreen(asks)
    \/ FullscreenChange
    \/ \E grants \in BOOLEAN : BrowserCarriesOut(grants)
    \/ UserEscapes
    \/ Observe

SpecFullscreen == InitGroup /\ [][NextFullscreen]_vars

(***************************************************************************)
(* What a tick call did, read from pre and log.                             *)
(***************************************************************************)
TickCalled == pre.op = "tick"

\* the positions of log that hold a message of the given type
EventsOf(type) == { k \in 1..Len(log) : log[k].type = type }

\* the steps the call ran: one check-collision-group each
StepsRun == Cardinality(EventsOf("check-collision-group"))

\* the time the call had to spend, and the cycles it makes
Accumulated == pre.leftoverTime + pre.arg.deltaT
WholeCycles == Accumulated \div stepLength

\* the messages that carry the step message {deltaT, camera}
StepMessages == EventsOf("handle-logic") \cup EventsOf("check-collision-group")

(***************************************************************************)
(* C1: a tick call runs at most maximumStepsPerTick steps, whatever deltaT  *)
(* it carries and whatever time was accumulated before: at most that many   *)
(* check-collision-group messages, and no handle-logic pass beyond them.    *)
(***************************************************************************)
C1_StepsPerTickBounded ==
    TickCalled =>
        /\ StepsRun <= maximumStepsPerTick
        /\ \A k \in EventsOf("handle-logic") : log[k].step < maximumStepsPerTick

\* a call whose accumulated time is worth more steps than the cap ran the cap
C1_Witness ==
    /\ TickCalled
    /\ WholeCycles > maximumStepsPerTick
    /\ StepsRun = maximumStepsPerTick
    /\ EventsOf("handle-logic") # {}

(***************************************************************************)
(* C3 (as claimed): a tick whose accumulated time is smaller than           *)
(* stepLength runs zero steps, keeps the accumulated time in leftoverTime   *)
(* and leaves the shared message's deltaT at the finite value it had.       *)
(***************************************************************************)
C3_ZeroCyclesPreserved ==
    (TickCalled /\ Accumulated < stepLength) =>
        /\ StepsRun = 0
        /\ leftoverTime = Accumulated
        /\ message.deltaT = pre.message.deltaT
        /\ IsFinite(message.deltaT)

(***************************************************************************)
(* C4: after every tick call leftoverTime is 0, also after calls that ran   *)
(* no step and calls that were capped; the step count of a call therefore   *)
(* depends on that call's own deltaT only.                                  *)
(***************************************************************************)
C4_LeftoverReset ==
    TickCalled =>
        /\ leftoverTime = 0
        /\ pre.leftoverTime = 0
        /\ StepsRun = Min(pre.arg.deltaT \div stepLength, maximumStepsPerTick)

\* a call that ran no step, with a remainder that is not carried
C4_Witness ==
    /\ TickCalled
    /\ pre.arg.deltaT > 0
    /\ pre.arg.deltaT < stepLength
    /\ StepsRun = 0
    /\ leftoverTime = 0

(***************************************************************************)
(* C5: in a tick with cycles = floor(accumulated / stepLength) >= 1, every  *)
(* handle-logic and check-collision-group message carries the same deltaT,  *)
(* and cycles (before the clamp) times that deltaT is the accumulated time; *)
(* that deltaT is at least stepLength.                                      *)
(***************************************************************************)
C5_AdjustedDelta ==
    (TickCalled /\ WholeCycles >= 1) =>
        \A k \in StepMessages :
            /\ IsFinite(log[k].deltaT)
            /\ log[k].deltaT.n * WholeCycles = Accumulated * log[k].deltaT.d
            /\ stepLength * log[k].deltaT.d <= log[k].deltaT.n
            /\ \A j \in StepMessages : log[j].deltaT = log[k].deltaT

\* stepLength 15 and deltaT 46: three steps, each carrying 46/3
C5_Witness ==
    /\ TickCalled
    /\ stepLength = 15
    /\ pre.arg.deltaT = 46
    /\ StepsRun = 3
    /\ EventsOf("handle-logic") # {}
    /\ \A k \in StepMessages : log[k].deltaT = [t |-> "number", n |-> 46, d |-> 3]

(***************************************************************************)
(* The culling window and the registered list, as the claims read them.     *)
(***************************************************************************)
\* how often e occurs in a list
Occurrences(list, e) == Cardinality({ k \in 1..Len(list) : list[k] = e })

\* the positions of log where e received handle-logic in step i
Dispatches(e, i) ==
    { k \in EventsOf("handle-logic") : log[k].target = e /\ log[k].step = i }

\* the positions of log where a dispatch to e returned a falsy result
FailedDispatches(e) ==
    { k \in EventsOf("handle-logic") : log[k].target = e /\ log[k].result = 0 }

\* e is in the registered list when step i starts
RegisteredAtStep(e, i) ==
    /\ Occurrences(pre.entities, e) > 0
    /\ \A k \in FailedDispatches(e) : log[k].step >= i

HasPosition(e) == typeof(pre.x[e]) = "number"

\* e lies in [left - buffer, left + width + buffer] x [top - buffer, top + height + buffer];
\* the positions are whole numbers and the buffer is the fraction b.n / b.d
InsideWindow(e) ==
    LET c  == pre.camera
        b  == c.buffer
        px == pre.x[e].n
        py == pre.y[e].n
    IN  /\ c.left * b.d - b.n <= px * b.d
        /\ px * b.d <= (c.left + c.width) * b.d + b.n
        /\ c.top * b.d - b.n <= py * b.d
        /\ py * b.d <= (c.top + c.height) * b.d + b.n

OnWindowBoundary(e) ==
    LET c  == pre.camera
        b  == c.buffer
    IN  pre.x[e].n * b.d = c.left * b.d - b.n

(***************************************************************************)
(* C6: in every step, a registered entity whose position lies outside the   *)
(* window receives no handle-logic and is still registered afterwards; an   *)
(* entity inside or on the boundary is dispatched, and so is an entity      *)
(* without an x position, wherever the camera is.                           *)
(***************************************************************************)
C6_Culling ==
    TickCalled =>
        \A e \in Entity : \A i \in 0..(StepsRun - 1) :
            RegisteredAtStep(e, i) =>
                IF HasPosition(e) /\ ~InsideWindow(e)
                THEN Dispatches(e, i) = {} /\ Occurrences(entities, e) > 0
                ELSE Dispatches(e, i) # {}

\* the hero is outside and skipped in a step that dispatches the hud
C6_Witness ==
    /\ TickCalled
    /\ StepsRun >= 1
    /\ Occurrences(pre.entities, "hero") > 0
    /\ ~InsideWindow("hero")
    /\ Dispatches("hero", 0) = {}
    /\ Occurrences(entities, "hero") > 0
    /\ Dispatches("hud", 0) # {}

\* the hero is on the boundary of the window and dispatched
C6_BoundaryReached ==
    /\ TickCalled
    /\ StepsRun >= 1
    /\ Occurrences(pre.entities, "hero") > 0
    /\ OnWindowBoundary("hero")
    /\ Dispatches("hero", 0) # {}

(***************************************************************************)
(* C7: an entity whose handle-logic dispatch returns a falsy result is      *)
(* removed from the registered list in that pass and receives no            *)
(* handle-logic in a later step; handle-logic goes to registered entities   *)
(* only, so it receives none in a later tick either unless                  *)
(* child-entity-added registers it again; and no entry of the list is       *)
(* removed for any other reason, by any handler.                            *)
(***************************************************************************)
C7_EvictedOnFalsyDispatch ==
    /\ TickCalled =>
        /\ \A k \in EventsOf("handle-logic") :
               Occurrences(pre.entities, log[k].target) > 0
        /\ \A e \in Entity : \A k \in FailedDispatches(e) :
               /\ Occurrences(entities, e) = 0
               /\ \A j \in EventsOf("handle-logic") :
                      log[j].target = e => log[j].step <= log[k].step
        /\ \A e \in Entity :
               Occurrences(entities, e) < Occurrences(pre.entities, e)
                   => FailedDispatches(e) # {}
        /\ \A e \in Entity : Occurrences(entities, e) <= Occurrences(pre.entities, e)
    /\ pre.op \in {"child-entity-added", "camera-update"} =>
          \A e \in Entity : Occurrences(entities, e) >= Occurrences(pre.entities, e)

\* the hero is dispatched in step 0, fails in step 1 and is gone in step 2,
\* where the hud still receives handle-logic
C7_Witness ==
    /\ TickCalled
    /\ StepsRun >= 3
    /\ \E k \in Dispatches("hero", 0) : log[k].result = 1
    /\ \E k \in Dispatches("hero", 1) : log[k].result = 0
    /\ Dispatches("hero", 2) = {}
    /\ Dispatches("hud", 2) # {}
    /\ Occurrences(entities, "hero") = 0
    /\ Occurrences(entities, "hud") > 0

(***************************************************************************)
(* C8: a tick that runs n steps emits, n times over: the handle-logic       *)
(* dispatches of the step, one time-elapsed named Logic, one                *)
(* check-collision-group on the owner, one time-elapsed named Collision;    *)
(* then one more time-elapsed (2n + 1 in all).  No handle-logic of a step   *)
(* comes before the check-collision-group of the step before it.           *)
(***************************************************************************)
\* the messages of log other than handle-logic, in order
RECURSIVE Frame(_)
Frame(events) ==
    IF events = << >> THEN << >>
    ELSE IF Head(events).type = "handle-logic" THEN Frame(Tail(events))
    ELSE << Head(events) >> \o Frame(Tail(events))

\* the messages of the given type among the first k of log
Before(k, type) == Cardinality({ j \in EventsOf(type) : j < k })

C8_StepSequence ==
    TickCalled =>
        LET n == Min(WholeCycles, maximumStepsPerTick)
            f == Frame(log)
        IN  /\ Len(f) = 3 * n + 1
            /\ \A s \in 1..n :
                   /\ f[3 * s - 2].type = "time-elapsed"
                   /\ f[3 * s - 2].name = "Logic"
                   /\ f[3 * s - 2].target = CurrentScene
                   /\ f[3 * s - 1].type = "check-collision-group"
                   /\ f[3 * s - 1].target = Owner
                   /\ f[3 * s].type = "time-elapsed"
                   /\ f[3 * s].name = "Collision"
                   /\ f[3 * s].target = CurrentScene
            /\ f[3 * n + 1].type = "time-elapsed"
            /\ log[Len(log)].type = "time-elapsed"
            /\ Cardinality(EventsOf("time-elapsed")) = 2 * n + 1
            /\ \A k \in EventsOf("handle-logic") :
                   /\ log[k].step < n
                   /\ Before(k, "check-collision-group") = log[k].step
                   /\ Before(k, "time-elapsed") = 2 * log[k].step

\* three steps, each with dispatches
C8_Witness ==
    /\ TickCalled
    /\ StepsRun = 3
    /\ \A i \in 0..2 : \E e \in Entity : Dispatches(e, i) # {}
    /\ Cardinality(EventsOf("time-elapsed")) = 7

(***************************************************************************)
(* C9 (as claimed): over any sequence of camera-update messages, a buffer   *)
(* that was not configured is given its default (viewportWidth / 4) exactly *)
(* once and never again, and a buffer that was configured is never changed  *)
(* by a camera-update.                                                      *)
(***************************************************************************)
BufferConfigured == typeof(definition.buffer) = "number"

C9_BufferDefaultedOnce ==
    /\ BufferConfigured =>
          /\ camera.buffer = definition.buffer
          /\ bufferDefaults = 0
    /\ ~BufferConfigured =>
          /\ bufferDefaults <= 1
          /\ pre.op = "camera-update" =>
                /\ bufferDefaults = 1
                /\ pre.bufferDefaults = 1 => camera.buffer = pre.camera.buffer
                /\ pre.bufferDefaults = 0 =>
                      camera.buffer.n * 4 = pre.arg.viewportWidth * camera.buffer.d

\* the part of C9 the code keeps: without a configured buffer, a second
\* camera-update of another width leaves the default of the first
C9_DefaultKept ==
    /\ ~BufferConfigured
    /\ pre.op = "camera-update"
    /\ pre.bufferDefaults = 1
    /\ pre.camera.width # pre.arg.viewportWidth
    /\ camera.buffer = pre.camera.buffer

(***************************************************************************)
(* C2 (as claimed): over tick calls with deltas summing to T, the steps     *)
(* executed in all are floor(T / stepLength) minus the steps dropped by the *)
(* cap.                                                                     *)
(***************************************************************************)
C2_TotalStepsOfTotalTime ==
    totalSteps = (totalT \div stepLength) - totalDropped

(***************************************************************************)
(* C2 (amended): the steps executed in all are the sum, over the calls, of  *)
(* the whole steps in that call's own deltaT, floor(deltaT / stepLength),   *)
(* minus the steps dropped by the cap: the remainder of a call is not       *)
(* carried into the next.  The total is therefore never more than           *)
(* floor(T / stepLength) minus the dropped steps, and is equal to it for a  *)
(* single call.                                                             *)
(***************************************************************************)
C2_TotalStepsOfEachDelta ==
    /\ totalSteps = totalCycles - totalDropped
    /\ totalSteps <= (totalT \div stepLength) - totalDropped
    /\ ticks = 1 => totalSteps = (totalT \div stepLength) - totalDropped

\* three calls, one of them capped, whose remainders add up to a whole step
C2_Witness ==
    /\ ticks = 3
    /\ totalDropped > 0
    /\ totalCycles < totalT \div stepLength
    /\ totalSteps = totalCycles - totalDropped

(***************************************************************************)
(* C10 (as claimed): after any sequence of child-entity-added,              *)
(* add-collision-entity, child-entity-removed and remove-collision-entity   *)
(* messages, solidEntities holds each entity at most once.                  *)
(***************************************************************************)
C10_NoDuplicateMembers ==
    \A g \in Groups : \A e \in Entity : Occurrences(solidEntities[g], e) <= 1

(***************************************************************************)
(* What a call of a collision group's handler did, read from pre.           *)
(***************************************************************************)
AddCalled == pre.op \in {"child-entity-added", "add-collision-entity"}

RemoveCalled == pre.op \in {"child-entity-removed", "remove-collision-entity"}

\* the types of entity that have at least one solid-collision response
RespondingTypes(e) ==
    { i \in 1..Len(collisionTypes(e)) : Len(solidCollisions(e, collisionTypes(e)[i])) > 0 }

(***************************************************************************)
(* C11: addCollisionEntity(entity) appends entity to solidEntities once for *)
(* every collision type of entity that has a solid-collision response, and  *)
(* only when entity is not immobile: the entries there before the call are  *)
(* kept in place, every new entry is entity, and a call with an immobile    *)
(* entity or an entity without a responding type leaves solidEntities of    *)
(* the group as it was; the other groups are not touched.                   *)
(***************************************************************************)
C11_AdmittedOnly ==
    AddCalled =>
        LET g == pre.group
            e == pre.arg
            before == pre.solidEntities[g]
            after == solidEntities[g]
            added == IF HasCollisionTypes(e) /\ ~immobile(e)
                     THEN Cardinality(RespondingTypes(e)) ELSE 0
        IN  /\ Len(after) = Len(before) + added
            /\ SubSeq(after, 1, Len(before)) = before
            /\ \A k \in (Len(before) + 1)..Len(after) : after[k] = e
            /\ (immobile(e) \/ RespondingTypes(e) = {}) => after = before
            /\ \A h \in Groups \ {g} : solidEntities[h] = pre.solidEntities[h]

\* an immobile entity with a responding type was added to a group that has
\* members, and the members are as before
C11_Witness ==
    /\ AddCalled
    /\ immobile(pre.arg)
    /\ RespondingTypes(pre.arg) # {}
    /\ pre.solidEntities[pre.group] # << >>
    /\ solidEntities[pre.group] = pre.solidEntities[pre.group]

\* an entity none of whose types has a response was added, to no effect
C11_NoResponseReached ==
    /\ AddCalled
    /\ HasCollisionTypes(pre.arg)
    /\ RespondingTypes(pre.arg) = {}
    /\ solidEntities[pre.group] = pre.solidEntities[pre.group]

(***************************************************************************)
(* The composition graph: a group holds a nested group when one of its      *)
(* members other than its owner owns a group.                               *)
(***************************************************************************)
NestedGroups(g) == { m \in Members(solidEntities[g]) \ {g} : m \in Groups }

\* the groups reached from g through n or fewer levels of nesting
RECURSIVE NestedWithin(_, _)
NestedWithin(g, n) ==
    IF n = 0 THEN {}
    ELSE NestedGroups(g) \cup
         UNION { NestedWithin(m, n - 1) : m \in NestedGroups(g) }

Cyclic(g) == g \in NestedWithin(g, Cardinality(Groups))

(***************************************************************************)
(* C12 (as claimed): after any sequence of add and remove messages on the   *)
(* collision groups, no group owner is a transitive member of its own group *)
(* (its direct membership as the owner aside).                              *)
(***************************************************************************)
C12_NoCompositionCycle == \A g \in Groups : ~Cyclic(g)

(***************************************************************************)
(* What a getAABB or getPreviousAABB call did, read from pre and log.       *)
(***************************************************************************)
QueryCalled == pre.op \in {"getAABB", "getPreviousAABB"}

\* the positions the call takes the members' own boxes at
QueryPositions ==
    IF pre.op = "getAABB" THEN [x |-> pre.x, y |-> pre.y]
    ELSE [x |-> pre.previousX, y |-> pre.previousY]

\* the cached box the call is about
QueryCache == IF pre.op = "getAABB" THEN pre.aabb[pre.group] ELSE pre.prevAABB[pre.group]

\* what the member at index i of the group hands to the call
Contribution(i) ==
    LET member == pre.solidEntities[pre.group][i]
    IN  IF member # pre.group /\ member \in Groups
        THEN TypedAABB(EmptyAABB, pre.solidEntities, member, pre.arg, 1, QueryPositions)
        ELSE EntityTypeAABB(member, pre.arg, QueryPositions.x[member].n,
                            QueryPositions.y[member].n)

Encloses(outer, inner) ==
    \/ inner.empty
    \/ /\ ~outer.empty
       /\ outer.left <= inner.left /\ inner.right <= outer.right
       /\ outer.top <= inner.top /\ inner.bottom <= outer.bottom

\* box is the smallest box that encloses every part
IsUnion(box, parts) ==
    /\ \A p \in parts : Encloses(box, p)
    /\ box.empty <=> \A p \in parts : p.empty
    /\ ~box.empty =>
          /\ \E p \in parts : ~p.empty /\ p.left = box.left
          /\ \E p \in parts : ~p.empty /\ p.right = box.right
          /\ \E p \in parts : ~p.empty /\ p.top = box.top
          /\ \E p \in parts : ~p.empty /\ p.bottom = box.bottom

(***************************************************************************)
(* C13: getAABB and getPreviousAABB leave aabb, prevAABB and solidEntities  *)
(* of every group as they were; called without collision type they return   *)
(* the group's cached aabb / prevAABB; called with a type they return, when *)
(* they return, the smallest box enclosing what every member hands in for   *)
(* the type (the nested group's answer for a member other than the owner    *)
(* that owns a group); they fail to return only when the forwarding runs in *)
(* a cycle.                                                                 *)
(***************************************************************************)
C13_QueryReadOnly ==
    QueryCalled =>
        /\ aabb = pre.aabb /\ prevAABB = pre.prevAABB
        /\ solidEntities = pre.solidEntities
        /\ pre.arg = NoType => log[1] = Returned(QueryCache)
        /\ (pre.arg # NoType /\ log[1].error = "") =>
               IsUnion(log[1].value,
                       { Contribution(i) : i \in 1..Len(pre.solidEntities[pre.group]) })
        /\ log[1].error # "" => \E g \in Groups : Cyclic(g)

\* getPreviousAABB with a type on a group with a nested group and a member of
\* its own that both hand in a box: the answer is neither the cached box nor
\* the answer at the current positions
C13_Witness ==
    /\ pre.op = "getPreviousAABB"
    /\ pre.arg # NoType
    /\ log[1].error = ""
    /\ ~log[1].value.empty
    /\ log[1].value # QueryCache
    /\ log[1] # getAABB(pre.group, pre.arg)
    /\ \E i, j \in 1..Len(pre.solidEntities[pre.group]) :
          /\ pre.solidEntities[pre.group][i] \in Groups \ {pre.group}
          /\ pre.solidEntities[pre.group][j] \notin Groups
          /\ ~Contribution(i).empty /\ ~Contribution(j).empty
          /\ Contribution(i) # Contribution(j)

(***************************************************************************)
(* C14: with the box a member of the platform's group and the passenger a   *)
(* member of the box's group, getAABB(type) on the platform's group returns *)
(* a box that encloses the box of that type of every entity the two groups  *)
(* hold as such (every member that owns no group, and the owner of a group  *)
(* where it is a member of its own group), and getAABB() returns the        *)
(* platform group's cached box.                                             *)
(***************************************************************************)
Leaves(g) == { m \in Members(pre.solidEntities[g]) : m = g \/ m \notin Groups }

TwoLevels ==
    /\ pre.op = "getAABB"
    /\ pre.group = "platform"
    /\ "box" \in Members(pre.solidEntities["platform"])
    /\ "passenger" \in Members(pre.solidEntities["box"])
    /\ "platform" \notin Members(pre.solidEntities["box"])

C14_TwoLevelAABB ==
    TwoLevels =>
        /\ log[1].error = ""
        /\ pre.arg = NoType => log[1].value = pre.aabb["platform"]
        /\ pre.arg # NoType =>
              \A leaf \in Leaves("platform") \cup Leaves("box") :
                  Encloses(log[1].value,
                           EntityTypeAABB(leaf, pre.arg, pre.x[leaf].n, pre.y[leaf].n))

\* the typed answer holds the boxes of the box and of its passenger, and is
\* not the cached box
C14_Witness ==
    /\ TwoLevels
    /\ pre.arg = "pushable"
    /\ "box" \in Members(pre.solidEntities["box"])
    /\ ~log[1].value.empty
    /\ log[1].value # pre.aabb["platform"]
    /\ Encloses(log[1].value, EntityTypeAABB("box", "pushable", pre.x["box"].n, pre.y["box"].n))
    /\ Encloses(log[1].value,
                EntityTypeAABB("passenger", "pushable", pre.x["passenger"].n,
                               pre.y["passenger"].n))

(***************************************************************************)
(* What a list query did, read from pre and log.                            *)
(***************************************************************************)
NoDuplicates(list) == \A i, j \in 1..Len(list) : list[i] = list[j] => i = j

\* what the members of the group hand to getCollisionTypes
MemberTypes(g) ==
    UNION { IF member # g /\ member \in Groups
            THEN Members(CompiledTypes(<< >>, pre.solidEntities, member, 1))
            ELSE Members(collisionTypes(member)) :
            member \in Members(pre.solidEntities[g]) }

\* what the members of the group hand to getSolidCollisions
MemberCollisions(g) ==
    { IF member # g /\ member \in Groups
      THEN CompiledCollisions(<< >>, pre.solidEntities, member, 1)
      ELSE EntitySolidCollisions(member) :
      member \in Members(pre.solidEntities[g]) }

(***************************************************************************)
(* C16: getCollisionTypes() returns, when it returns, a list that holds     *)
(* every collision type of every member (of the nested group for a member   *)
(* other than the owner that owns one) once and nothing else, and           *)
(* getSolidCollisions() returns the members' keys, each with every response *)
(* any member has under it once and nothing else; a member that occurs      *)
(* several times or a type two members share is listed once.                *)
(***************************************************************************)
C16_UnionWithoutDuplicates ==
    /\ (pre.op = "getCollisionTypes" /\ log[1].error = "") =>
          /\ NoDuplicates(log[1].value)
          /\ Members(log[1].value) = MemberTypes(pre.group)
    /\ (pre.op = "getSolidCollisions" /\ log[1].error = "") =>
          /\ DOMAIN log[1].value = UNION { DOMAIN c : c \in MemberCollisions(pre.group) }
          /\ \A key \in DOMAIN log[1].value :
                /\ NoDuplicates(log[1].value[key])
                /\ Members(log[1].value[key]) =
                       UNION { Members(c[key]) :
                               c \in { d \in MemberCollisions(pre.group) : key \in DOMAIN d } }

\* the owner is in its own group twice and shares a type with another
\* member; the type and its response are listed once
C16_Witness ==
    /\ pre.op = "getSolidCollisions"
    /\ log[1].error = ""
    /\ Occurrences(pre.solidEntities[pre.group], pre.group) = 2
    /\ \E m \in Members(pre.solidEntities[pre.group]) \ Groups :
          /\ "pushable" \in Members(collisionTypes(m))
          /\ "pushable" \in Members(collisionTypes(pre.group))
    /\ log[1].value["pushable"] = <<"wall">>
    /\ Cardinality(DOMAIN log[1].value) = 3

\* the same state, asked for its types
C16_TypesReached ==
    /\ pre.op = "getCollisionTypes"
    /\ log[1].error = ""
    /\ Occurrences(pre.solidEntities[pre.group], pre.group) = 2
    /\ Len(pre.solidEntities[pre.group]) = 3
    /\ Len(log[1].value) = 3

(***************************************************************************)
(* C17 (as claimed): in every membership state reached through add and      *)
(* remove messages, the list getShapes(type) or getPrevShapes(type) returns *)
(* holds no shape object more than once.                                    *)
(***************************************************************************)
C17_ShapesWithoutDuplicates ==
    (pre.op \in {"getShapes", "getPrevShapes"} /\ log[1].error = "") =>
        NoDuplicates(log[1].value)

(***************************************************************************)
(* C18: addCollisionEntity and removeCollisionEntity called with an entity  *)
(* that has no collisionTypes leave solidEntities and the cached aabb (and   *)
(* prevAABB) of every group as they were.                                   *)
(***************************************************************************)
C18_NoTypesIgnored ==
    ((AddCalled \/ RemoveCalled) /\ ~HasCollisionTypes(pre.arg)) =>
        /\ solidEntities = pre.solidEntities
        /\ aabb = pre.aabb
        /\ prevAABB = pre.prevAABB

\* the call was made on a group that has members and whose cached box is not
\* what updateAABB would make it
C18_Witness ==
    /\ RemoveCalled
    /\ ~HasCollisionTypes(pre.arg)
    /\ solidEntities[pre.group] # << >>
    /\ solidEntities = pre.solidEntities
    /\ aabb[pre.group] # UpdatedAABB(pre.group, solidEntities[pre.group], aabb)

\* the same for an add call
C18_AddReached ==
    /\ AddCalled
    /\ ~HasCollisionTypes(pre.arg)
    /\ solidEntities[pre.group] # << >>
    /\ aabb[pre.group] # UpdatedAABB(pre.group, solidEntities[pre.group], aabb)

(***************************************************************************)
(* C19 (as claimed): StateMap.update(newState) returns true exactly when    *)
(* this state had, before the call, the value of newState under every key   *)
(* of newState, and false when at least one value had to be changed.        *)
(***************************************************************************)
MatchedBefore == \A key \in DOMAIN pre.arg : pre.state[key] = pre.arg[key]

C19_ReturnsWhetherMatched ==
    pre.op = "update" => (log[1].value <=> MatchedBefore)

(***************************************************************************)
(* C20: for any interleaving of toggle-fullscreen messages and fullscreen   *)
(* change events, a toggle-fullscreen turns the mode on if it was off and   *)
(* off if it was on, a change event that finds no fullscreen element turns  *)
(* it off, and in every state the container has the full-screen class once  *)
(* when the mode is on and not at all when it is off.                       *)
(***************************************************************************)
C20_ModeAndClass ==
    /\ pre.op = "toggle-fullscreen" => enabled = ~pre.enabled
    /\ (pre.op = "fullscreenchange" /\ ~pre.fullscreenElement) => ~enabled
    /\ Occurrences(className, FullScreenClass) = IF enabled THEN 1 ELSE 0

\* a change event of an earlier exit is delivered while the mode is on again
\* and the new request is still with the browser: the mode goes off and the
\* class is taken away
C20_Witness ==
    /\ pre.op = "fullscreenchange"
    /\ ~pre.fullscreenElement
    /\ pre.enabled
    /\ Occurrences(pre.className, FullScreenClass) = 1
    /\ pre.requests # << >>
    /\ ~enabled
    /\ className = ContainerClasses

(***************************************************************************)
(* What a relocateEntity call did, read from pre and log.                   *)
(***************************************************************************)
\* the owner is thisShape.owner of an x entry and of no y entry
StoppedAlongXOnly ==
    /\ pre.op = "relocateEntity"
    /\ pre.group \in pre.data.x
    /\ pre.group \notin pre.data.y

\* the owner's saved deltas after lines 361-362
UpdatedDX == Minus(pre.saveDX[pre.group], Minus(pre.vector.x, pre.previousX[pre.group]))
UpdatedDY == Minus(pre.saveDY[pre.group], Minus(pre.vector.y, pre.previousY[pre.group]))

\* the entries of the group's own loop for members other than the owner
CarriedEntries ==
    { k \in 1..Len(log) : log[k].group = pre.group /\ log[k].entity # pre.group }

(***************************************************************************)
(* C15: relocateEntity(vector, collisionData) on a group whose owner is     *)
(* thisShape.owner of at least one x entry and of no y entry leaves the     *)
(* owner's saveDX at 0 and its saveDY at the value updated by the call      *)
(* (saveDY - (vector.y - previousY)), and for every entry of a member other *)
(* than the owner the member's y then receives that saveDY while its x      *)
(* receives nothing from the owner; a member that owns no group and is      *)
(* listed once, and in no nested group, ends at vector - offset plus its    *)
(* own saved delta, plus the owner's saveDY along y.                        *)
(***************************************************************************)
C15_StoppedAlongX ==
    StoppedAlongXOnly =>
        /\ saveDX[pre.group] = Num(0)
        /\ saveDY[pre.group] = UpdatedDY
        /\ \A k \in CarriedEntries :
              /\ log[k].carried.x = log[k].own.x
              /\ log[k].carried.y = Plus(log[k].own.y, UpdatedDY)
        /\ \A m \in Members(pre.solidEntities[pre.group]) \ Groups :
              (/\ Occurrences(pre.solidEntities[pre.group], m) = 1
               /\ \A h \in NestedGroups(pre.group) : m \notin Members(pre.solidEntities[h])) =>
                  /\ x[m] = Plus(Minus(pre.vector.x, pre.saveOX[m]), pre.saveDX[m])
                  /\ y[m] = Plus(Plus(Minus(pre.vector.y, pre.saveOY[m]), pre.saveDY[m]),
                                 UpdatedDY)

\* the owner was prepared and carried a delta along both axes; a member of
\* the group that owns no group moved along y with the owner
C15_Witness ==
    /\ StoppedAlongXOnly
    /\ IsFinite(UpdatedDX) /\ UpdatedDX # Num(0)
    /\ IsFinite(UpdatedDY) /\ UpdatedDY # Num(0)
    /\ pre.group \in Members(pre.solidEntities[pre.group])
    /\ \E j \in CarriedEntries :
          /\ log[j].entity \notin Groups
          /\ IsFinite(log[j].carried.y)
          /\ log[j].carried.y # log[j].own.y
          /\ y[log[j].entity] = log[j].carried.y

\* the same with a nested group as the member: the nested owner and the
\* passenger it carries have moved
C15_NestedReached ==
    /\ StoppedAlongXOnly
    /\ IsFinite(UpdatedDX) /\ UpdatedDX # Num(0)
    /\ IsFinite(UpdatedDY) /\ UpdatedDY # Num(0)
    /\ \E k \in CarriedEntries :
          /\ log[k].entity \in Groups
          /\ IsFinite(log[k].carried.y)
          /\ log[k].carried.y # log[k].own.y
          /\ \E m \in Members(pre.solidEntities[log[k].entity]) \ Groups :
                IsFinite(y[m]) /\ y[m] # pre.y[m]

(***************************************************************************)
(* The entries of the registered list, pass by pass.                        *)
(***************************************************************************)
\* the dispatches to e that returned a falsy result before step i
FailedBefore(e, i) == { k \in FailedDispatches(e) : log[k].step < i }

\* how often e is in the registered list when the pass of step i starts
ListedAtStep(e, i) == Occurrences(pre.entities, e) - Cardinality(FailedBefore(e, i))

\* e passes the test of the culling window
Dispatchable(e) == ~HasPosition(e) \/ InsideWindow(e)

\* the registered list without the entities in gone, the order kept
RECURSIVE Without(_, _)
Without(list, gone) ==
    IF list = << >> THEN << >>
    ELSE IF Head(list) \in gone THEN Without(Tail(list), gone)
    ELSE << Head(list) >> \o Without(Tail(list), gone)

C21_TwiceReached ==
    /\ TickCalled
    /\ StepsRun >= 1
    /\ Occurrences(pre.entities, "hero") = 2
    /\ Cardinality(Dispatches("hero", 0)) = 2

(***************************************************************************)
(* Registration from inside a pass, as the claims read it.                  *)
(***************************************************************************)
\* the tick had a listener that sends child-entity-added
ReentrantTick == TickCalled /\ pre.arg.spawn.by # "nobody"

\* the positions of log where an entry for e was pushed during a pass
Registrations(e) ==
    { k \in EventsOf("child-entity-added") :
        log[k].name = e /\ PushCount(getMessageIds(e), 1) > 0 }

RegisteredBefore(e, i) == { k \in Registrations(e) : log[k].step < i }

\* how often e is in the registered list when the pass of step i starts
EntriesAtStep(e, i) ==
    Occurrences(pre.entities, e) + Cardinality(RegisteredBefore(e, i))
        - Cardinality(FailedBefore(e, i))

PrepareCalled == pre.op = "prepareCollision"

\* m is a member of the prepared group that owns a group of its own and is
\* listed in it
NestedOwnerListed(m) ==
    /\ m # pre.group
    /\ m \in Groups
    /\ m \in Members(pre.solidEntities[pre.group])
    /\ m \in Members(pre.solidEntities[m])

(***************************************************************************)
(* C23: when prepareCollision on a group returns, every member m of the     *)
(* group, a member listed in a nested group of its own included, has        *)
(* saveDX = m.x - m.previousX, saveDY = m.y - m.previousY, and              *)
(* saveOX = owner.previousX - m.previousX, saveOY = owner.previousY -       *)
(* m.previousY for the owner of the group that was prepared.                *)
(***************************************************************************)
C23_SavedRelativeToOwner ==
    PrepareCalled =>
        \A m \in Members(pre.solidEntities[pre.group]) :
            /\ saveDX[m] = Minus(x[m], previousX[m])
            /\ saveDY[m] = Minus(y[m], previousY[m])
            /\ saveOX[m] = Minus(previousX[pre.group], previousX[m])
            /\ saveOY[m] = Minus(previousY[pre.group], previousY[m])

\* the box is a member of the platform's group and of its own: after the
\* platform's prepareCollision its offset is the one to itself, not the one
\* to the platform
C23_OffsetOverwritten ==
    /\ PrepareCalled
    /\ pre.group = "platform"
    /\ NestedOwnerListed("box")
    /\ Minus(previousX["platform"], previousX["box"]) = Num(-1)
    /\ saveOX["box"] = Num(0)
    /\ saveOY["box"] = Num(0)

\* the members that are not listed in a group of their own do have the
\* offsets to the owner
C23_LeafOffsets ==
    PrepareCalled =>
        \A m \in Members(pre.solidEntities[pre.group]) :
            (\A h \in NestedGroups(pre.group) \cup {pre.group} :
                 h # pre.group => m \notin Members(pre.solidEntities[h]))
                => /\ saveOX[m] = Minus(previousX[pre.group], previousX[m])
                   /\ saveOY[m] = Minus(previousY[pre.group], previousY[m])

RelocateCalled == pre.op = "relocateEntity"

\* the members of the relocated group, and of the groups nested in it, held
\* the deltas and offsets of a prepareCollision when the call began
PreparedBefore ==
    \A g \in {pre.group} \cup NestedGroups(pre.group) :
        \A m \in Members(pre.solidEntities[g]) :
            /\ IsFinite(pre.saveDX[m]) /\ IsFinite(pre.saveDY[m])
            /\ IsFinite(pre.saveOX[m]) /\ IsFinite(pre.saveOY[m])

\* where the member m of the relocated group is when it was relocated at
\* vector - offset and then received its own saved delta once and, unless it
\* is the owner, the owner's saved delta once
RelocatedOnceX(m) ==
    LET own == Plus(Minus(pre.vector.x, pre.saveOX[m]), saveDX[m])
    IN  IF m # pre.group THEN Plus(own, saveDX[pre.group]) ELSE own
RelocatedOnceY(m) ==
    LET own == Plus(Minus(pre.vector.y, pre.saveOY[m]), saveDY[m])
    IN  IF m # pre.group THEN Plus(own, saveDY[pre.group]) ELSE own

(***************************************************************************)
(* C24: relocateEntity(vector, collisionData) relocates every member m at   *)
(* (vector.x - m.saveOX, vector.y - m.saveOY) and then adds m's own saved   *)
(* delta to m's position exactly once and, when m is not the owner of the   *)
(* group, the owner's saved delta exactly once, for members that own a      *)
(* nested group as for the others.                                          *)
(***************************************************************************)
C24_DeltasAddedOnce ==
    (RelocateCalled /\ PreparedBefore) =>
        \A m \in Members(pre.solidEntities[pre.group]) :
            /\ x[m] = RelocatedOnceX(m)
            /\ y[m] = RelocatedOnceY(m)

\* the platform is listed once in the box's group and once in its own: the
\* loop of its own group adds its saved delta and the box's loop adds it again
C24_AddedTwice ==
    /\ RelocateCalled /\ PreparedBefore
    /\ pre.group = "box"
    /\ pre.solidEntities["platform"] = << "platform" >>
    /\ Occurrences(pre.solidEntities["box"], "platform") = 1
    /\ "box" \in Members(pre.solidEntities["box"])
    /\ IsFinite(saveDX["platform"]) /\ saveDX["platform"] # Num(0)
    /\ IsFinite(saveDX["box"])
    /\ IsFinite(x["platform"])
    /\ x["platform"] = Plus(RelocatedOnceX("platform"), saveDX["platform"])
    /\ y["platform"] = Plus(RelocatedOnceY("platform"), saveDY["platform"])

\* the members that own no group, and the owner itself, do end where the
\* statement puts them
C24_LeafOnce ==
    (RelocateCalled /\ PreparedBefore) =>
        \A m \in Members(pre.solidEntities[pre.group]) :
            (m = pre.group \/ m \notin Groups)
                => x[m] = RelocatedOnceX(m) /\ y[m] = RelocatedOnceY(m)

(***************************************************************************)
(* Membership, as the claims read it.                                       *)
(***************************************************************************)
PairCalled == pre.op = "remove-after-add"

\* the entries addCollisionEntity makes for e: one for each admitted type
AdmittedCount(e) ==
    Cardinality({ i \in 1..Len(collisionTypes(e)) : Admitted(e, collisionTypes(e)[i]) })

C25_RemovedLater ==
    /\ RemoveCalled
    /\ pre.arg = "box"
    /\ Occurrences(pre.solidEntities[pre.group], "box") = 2
    /\ "box" \notin Members(solidEntities[pre.group])

(***************************************************************************)
(* The cached box of a group, as the claims read it.                        *)
(***************************************************************************)
RelocateEntityEventCalled == pre.op = "relocate-entity"

\* a call that recomputes the cached box of pre.group
Recomputed ==
    \/ (AddCalled \/ RemoveCalled) /\ HasCollisionTypes(pre.arg)
    \/ RelocateEntityEventCalled

\* the boxes of the entities in solidEntities of g: the cached box of its
\* group for a member other than the owner that owns one, the member's own
\* box otherwise
CurrentBoxes(g) ==
    { IF m # g /\ m \in Groups THEN aabb[m] ELSE EntityAABB(m) :
        m \in Members(solidEntities[g]) }

(***************************************************************************)
(* C26: right after an addCollisionEntity or removeCollisionEntity that is  *)
(* not ignored, and after a relocate-entity message, the cached aabb of the *)
(* group is the union of the current boxes of exactly the entities in       *)
(* solidEntities (the cached box of a nested group for a member other than  *)
(* the owner that owns one); it is the reset box when solidEntities is      *)
(* empty; computing it again without moving a member gives the same box;    *)
(* and relocate-entity leaves the owner's previous position equal to its    *)
(* position.                                                                *)
(***************************************************************************)
C26_CachedUnion ==
    /\ Recomputed =>
          /\ IsUnion(aabb[pre.group], CurrentBoxes(pre.group))
          /\ solidEntities[pre.group] = << >> => aabb[pre.group] = EmptyAABB
          /\ UpdatedAABB(pre.group, solidEntities[pre.group], aabb) = aabb[pre.group]
    /\ RelocateEntityEventCalled =>
          /\ previousX[pre.group] = x[pre.group]
          /\ previousY[pre.group] = y[pre.group]

\* the box was removed from the platform's group, whose box shrank to the
\* platform's own
C26_Witness ==
    /\ RemoveCalled
    /\ pre.group = "platform"
    /\ pre.arg = "box"
    /\ solidEntities["platform"] = << "platform" >>
    /\ pre.aabb["platform"] # aabb["platform"]
    /\ aabb["platform"] = EntityAABB("platform")

\* the last member was removed and the box is the reset box
C26_EmptyReached ==
    /\ RemoveCalled
    /\ pre.solidEntities[pre.group] # << >>
    /\ solidEntities[pre.group] = << >>
    /\ aabb[pre.group] = EmptyAABB

\* relocate-entity on the platform after it moved with the box in its
\* group: the box covers both and the previous position has caught up
C26_RelocatedReached ==
    /\ RelocateEntityEventCalled
    /\ pre.group = "platform"
    /\ Members(solidEntities["platform"]) = { "platform", "box" }
    /\ pre.previousX["platform"] # x["platform"]
    /\ previousX["platform"] = x["platform"]
    /\ IsFinite(x["platform"]) /\ IsFinite(x["box"])
    /\ aabb["platform"] # EntityAABB("platform")
    /\ aabb["platform"] # aabb["box"]

(***************************************************************************)
(* What a method that walks the members did, read from pre and log.         *)
(***************************************************************************)
Acyclic == \A g \in Groups : ~Cyclic(g)

WalkCalled == pre.op \in {"getAllEntities", "movePreviousX"}

\* the record of the nested calls: getAllEntities puts its result in front
Calls == IF pre.op = "getAllEntities" THEN Tail(log) ELSE log

\* how often the loop of group g ran: once for the call itself on the group
\* the method was called on, once for each time g was entered as a member
LoopsOf(g) ==
    (IF g = pre.group THEN 1 ELSE 0)
        + Cardinality({ k \in OfKind(Calls, "enter") : Calls[k].group = g })

\* the entries of the record where the loop of g entered the group of h, and
\* where it handled the entity e itself
EnteredFrom(g, h) ==
    { k \in OfKind(Calls, "enter") : Calls[k].from = g /\ Calls[k].group = h }
HandledIn(g, e) ==
    { k \in OfKind(Calls, "entity") : Calls[k].group = g /\ Calls[k].entity = e }

ReturningQueryCalled ==
    pre.op \in {"getAABB", "getPreviousAABB", "getCollisionTypes", "getSolidCollisions",
                "getShapes", "getPrevShapes"}

C27_MovePreviousReached ==
    /\ pre.op = "movePreviousX"
    /\ pre.group = "platform"
    /\ Occurrences(solidEntities["platform"], "box") = 2
    /\ "passenger" \in Members(solidEntities["box"])
    /\ Cardinality(EnteredFrom("platform", "box")) = 2
    /\ \E k \in HandledIn("box", "passenger") : IsFinite(log[k].x)

\* on a nesting with a cycle the stack is exhausted
C27_CycleReached ==
    /\ pre.op = "getAllEntities"
    /\ ~Acyclic
    /\ log[1] = RangeError

(***************************************************************************)
(* What LogicRotationalMovement did during a tick, read from pre and log.   *)
(***************************************************************************)
\* the positions of log where the handler of the component ran
OwnerMoves == EventsOf("owner-moved")

\* the handle-logic message the scheduler dispatched when the handler at
\* position k of log ran
DispatchOf(k) ==
    CHOOSE j \in EventsOf("handle-logic") :
        /\ log[j].target = log[k].target
        /\ log[j].step = log[k].step
        /\ j > k
        /\ \A h \in EventsOf("handle-logic") :
              (log[h].target = log[k].target /\ log[h].step = log[k].step /\ h > k)
                  => j <= h

\* the velocity of the owner while the component is not turning
VelocityX == IF moving THEN polarToCartesianX(magnitude, angle) ELSE Num(0)
VelocityY == IF moving THEN polarToCartesianY(magnitude, angle) ELSE Num(0)

(***************************************************************************)
(* C28 (as claimed): on every handle-logic message the scheduler            *)
(* dispatches, LogicRotationalMovement reads the length of the tick from a  *)
(* field the payload {deltaT, camera} defines, with the value of that       *)
(* step's adjusted delta, and moves its owner by velocity times that        *)
(* length.                                                                  *)
(***************************************************************************)
C28_MovesByAdjustedDelta ==
    TickCalled =>
        \A k \in OwnerMoves :
            /\ log[k].deltaT = log[DispatchOf(k)].deltaT
            /\ (~turningRight /\ ~turningLeft) =>
                  /\ log[k].to.x = Plus(log[k].from.x,
                                        Times(VelocityX, log[DispatchOf(k)].deltaT))
                  /\ log[k].to.y = Plus(log[k].from.y,
                                        Times(VelocityY, log[DispatchOf(k)].deltaT))

\* the hero stands still inside the window and receives one handle-logic
\* with a delta of 15: the handler reads undefined and the hero's position
\* is NaN afterwards
C28_PositionLost ==
    /\ TickCalled
    /\ ~moving /\ ~turningRight /\ ~turningLeft
    /\ IsFinite(pre.x[Mover])
    /\ \E k \in OwnerMoves :
          /\ log[k].target = Mover
          /\ log[DispatchOf(k)].deltaT = Num(15)
          /\ log[k].deltaT = Undefined
    /\ x[Mover] = NaN
    /\ y[Mover] = NaN

\* the hero was moving forward: after the first step its position is NaN
\* and the later steps of the tick no longer dispatch to it
C28_CulledReached ==
    /\ TickCalled
    /\ moving
    /\ StepsRun >= 2
    /\ Cardinality(OwnerMoves) = 1
    /\ Occurrences(entities, Mover) = 1
    /\ x[Mover] = NaN

(***************************************************************************)
(* C29: for every pair of state maps a and s, after a.update(s) the call    *)
(* a.includes(s) returns true, the keys of a that are not keys of s keep    *)
(* their values, and a second a.update(s) changes no value and returns      *)
(* false, the opposite of what a first call that changed a value returned.  *)
(***************************************************************************)
KeptOutside(before, after, otherState) ==
    \A key \in StateKeys \ DOMAIN otherState : after[key] = before[key]

C29_UpdateThenIncludes ==
    /\ pre # Idle /\ pre.op = "update" => KeptOutside(pre.state, state, pre.arg)
    /\ pre # Idle /\ pre.op = "includes-after-update" =>
          /\ log[1] = Returned(TRUE)
          /\ KeptOutside(pre.before, state, pre.arg)
    /\ pre # Idle /\ pre.op = "update-again" =>
          /\ state = pre.state
          /\ log[1] = Returned(FALSE)
          /\ pre.before # pre.state => pre.first = TRUE

\* a first update that changed a value and left another key alone was
\* followed by a second update with the same map
C29_Witness ==
    /\ pre # Idle /\ pre.op = "update-again"
    /\ pre.first = TRUE
    /\ pre.before # pre.state
    /\ \E key \in StateKeys \ DOMAIN pre.arg : state[key] # "undefined"

\* includes was called after an update that changed a value
C29_IncludesReached ==
    /\ pre # Idle /\ pre.op = "includes-after-update"
    /\ pre.first = TRUE
    /\ \E key \in StateKeys \ DOMAIN pre.arg : state[key] # "undefined"

====
